---- MODULE Spec2Model ----
(***************************************************************************)
(* Model of the slide intelligence module (src/slide_intelligence.py):     *)
(* SlideAnalyzer's classifier, insight extractor, structure and transition *)
(* tables, and the two module-level functions built on them.  Texts are    *)
(* strings; regular expressions are syntax trees matched character by      *)
(* character the way Python's re module matches them.                      *)
(***************************************************************************)
EXTENDS Integers, Sequences, FiniteSets, TLC

(***************************************************************************)
(* Characters and strings (str.lower, str.strip, str.split, int, str).     *)
(***************************************************************************)
UpperChars == "ABCDEFGHIJKLMNOPQRSTUVWXYZ"

LowerChars == "abcdefghijklmnopqrstuvwxyz"

DigitChars == "0123456789"

CharsOf(s) == {SubSeq(s, k, k) : k \in 1..Len(s)}

IndexIn(s, c) == CHOOSE k \in 1..Len(s) : SubSeq(s, k, k) = c

LowerMap == [c \in CharsOf(UpperChars) |-> SubSeq(LowerChars, IndexIn(UpperChars, c), IndexIn(UpperChars, c))]

DigitMap == [c \in CharsOf(DigitChars) |-> IndexIn(DigitChars, c) - 1]

Upper == CharsOf(UpperChars)

Digit == CharsOf(DigitChars)

WordChar == Upper \cup CharsOf(LowerChars) \cup Digit \cup {"_"}

Space == {" ", "\t", "\n", "\r", "\f"}

Ch(t, i) == SubSeq(t, i, i)

LowerCh(c) == IF c \in Upper THEN LowerMap[c] ELSE c

RECURSIVE ToLower(_)
ToLower(s) ==
  IF s = "" THEN ""
  ELSE IF Len(s) = 1 THEN LowerCh(s)
  ELSE LET half == Len(s) \div 2
       IN ToLower(SubSeq(s, 1, half)) \o ToLower(SubSeq(s, half + 1, Len(s)))

RECURSIVE LStrip(_)
LStrip(s) == IF s # "" /\ Ch(s, 1) \in Space THEN LStrip(SubSeq(s, 2, Len(s))) ELSE s

RECURSIVE RStrip(_)
RStrip(s) == IF s # "" /\ Ch(s, Len(s)) \in Space THEN RStrip(SubSeq(s, 1, Len(s) - 1)) ELSE s

Strip(s) == RStrip(LStrip(s))

\* s.split('\n'): the pieces between the newlines of s
SplitLines(s) ==
  LET breaks == {i \in 1..Len(s) : SubSeq(s, i, i) = "\n"}
      break(k) == IF k = 0 THEN 0
                  ELSE IF k > Cardinality(breaks) THEN Len(s) + 1
                  ELSE CHOOSE b \in breaks : Cardinality({c \in breaks : c < b}) = k - 1
  IN [k \in 1..(Cardinality(breaks) + 1) |-> SubSeq(s, break(k - 1) + 1, break(k) - 1)]

RECURSIVE Join(_, _)
Join(ws, sep) ==
  IF Len(ws) = 0 THEN ""
  ELSE IF Len(ws) = 1 THEN ws[1]
  ELSE ws[1] \o sep \o Join(Tail(ws), sep)

RECURSIVE StrToInt(_)
StrToInt(s) == IF s = "" THEN 0 ELSE 10 * StrToInt(SubSeq(s, 1, Len(s) - 1)) + DigitMap[Ch(s, Len(s))]

RECURSIVE IntToStr(_)
IntToStr(n) == IF n < 10 THEN Ch(DigitChars, n + 1) ELSE IntToStr(n \div 10) \o Ch(DigitChars, (n % 10) + 1)

(***************************************************************************)
(* Regular expressions.  A pattern is a tree of nodes [k, s, a]: kind,     *)
(* text payload, children.  Positions are offsets 0..Len(t).               *)
(***************************************************************************)
Node(k, s, a) == [k |-> k, s |-> s, a |-> a]

L(s) == Node("lit", s, <<>>)

Cls(c) == Node("cls", c, <<>>)

Cat(rs) == Node("cat", "", rs)

Alt(rs) == Node("alt", "", rs)

Opt(r) == Node("opt", "", <<r>>)

Star(r) == Node("star", "", <<r>>)

Plus(r) == Node("plus", "", <<r>>)

LazyStar(r) == Node("lazystar", "", <<r>>)

LazyPlus(r) == Node("lazyplus", "", <<r>>)

Look(r) == Node("look", "", <<r>>)

Bol == Node("bol", "", <<>>)

Eol == Node("eol", "", <<>>)

WordB == Node("wordb", "", <<>>)

S0 == Star(Cls("s"))

S1 == Plus(Cls("s"))

D1 == Plus(Cls("d"))

Dot == Cls(".")

Flags(ic, dotall) == [ic |-> ic, dotall |-> dotall]

SameCh(a, b, ic) == IF ic THEN LowerCh(a) = LowerCh(b) ELSE a = b

LitAt(s, t, i, ic) ==
  /\ i + Len(s) <= Len(t)
  /\ \A k \in 1..Len(s) : SameCh(Ch(t, i + k), Ch(s, k), ic)

InClass(c, x, fl) ==
  CASE c = "s" -> x \in Space
    [] c = "d" -> x \in Digit
    [] c = "." -> fl.dotall \/ x # "\n"

IsWordAt(t, i) == i >= 1 /\ i <= Len(t) /\ Ch(t, i) \in WordChar

AtEol(t, i) == i = Len(t) \/ (i = Len(t) - 1 /\ Ch(t, Len(t)) = "\n")

\* the offsets reached from offset i by zero or more characters of class c: up to the
\* first later position whose character is not in c
ClassRun(c, t, i, fl) ==
  LET misses == {k \in (i + 1)..Len(t) : ~InClass(c, Ch(t, k), fl)}
  IN i..(IF misses = {} THEN Len(t) ELSE (CHOOSE k \in misses : \A j \in misses : k <= j) - 1)

RECURSIVE Ends(_, _, _, _), CatEnds(_, _, _, _, _), StarEnds(_, _, _, _), StarMore(_, _, _, _, _)
Ends(r, t, i, fl) ==
  CASE r.k = "lit" -> IF LitAt(r.s, t, i, fl.ic) THEN {i + Len(r.s)} ELSE {}
    [] r.k = "cls" -> IF i < Len(t) /\ InClass(r.s, Ch(t, i + 1), fl) THEN {i + 1} ELSE {}
    [] r.k = "cat" -> CatEnds(r.a, 1, t, {i}, fl)
    [] r.k = "alt" -> UNION {Ends(r.a[k], t, i, fl) : k \in 1..Len(r.a)}
    [] r.k = "opt" -> {i} \cup Ends(r.a[1], t, i, fl)
    [] r.k \in {"star", "lazystar"} -> StarEnds(r.a[1], t, {i}, fl)
    [] r.k \in {"plus", "lazyplus"} -> StarEnds(r.a[1], t, Ends(r.a[1], t, i, fl), fl)
    [] r.k = "look" -> IF Ends(r.a[1], t, i, fl) # {} THEN {i} ELSE {}
    [] r.k = "bol" -> IF i = 0 THEN {i} ELSE {}
    [] r.k = "eol" -> IF AtEol(t, i) THEN {i} ELSE {}
    [] r.k = "wordb" -> IF IsWordAt(t, i) # IsWordAt(t, i + 1) THEN {i} ELSE {}

CatEnds(rs, k, t, from, fl) ==
  IF k > Len(rs) \/ from = {} THEN from
  ELSE CatEnds(rs, k + 1, t, UNION {Ends(rs[k], t, j, fl) : j \in from}, fl)

StarEnds(r, t, from, fl) ==
  IF r.k = "cls" THEN UNION {ClassRun(r.s, t, j, fl) : j \in from}
  ELSE StarMore(r, t, from, from, fl)

\* zero or more repetitions of r from the offsets in new; seen holds the offsets found so far
StarMore(r, t, seen, new, fl) ==
  LET next == UNION {Ends(r, t, j, fl) : j \in new} \ seen
  IN IF next = {} THEN seen ELSE StarMore(r, t, seen \cup next, next, fl)

Search(r, t, fl) == \E i \in 0..Len(t) : Ends(r, t, i, fl) # {}

(***************************************************************************)
(* The match the backtracking matcher returns for a pattern given as a     *)
(* sequence of parts (literals, assertions, one quantified class each): a  *)
(* greedy part takes the longest extent that lets the rest match, a lazy   *)
(* part the shortest.  MatchFrom yields the end offset of every part.      *)
(***************************************************************************)
Min(S) == CHOOSE e \in S : \A f \in S : e <= f

Max(S) == CHOOSE e \in S : \A f \in S : e >= f

RestMatches(parts, k, t, i, fl) == CatEnds(SubSeq(parts, k, Len(parts)), 1, t, {i}, fl) # {}

RECURSIVE MatchFrom(_, _, _, _, _)
MatchFrom(parts, k, t, i, fl) ==
  IF k > Len(parts) THEN <<>>
  ELSE LET cands == {e \in Ends(parts[k], t, i, fl) : RestMatches(parts, k + 1, t, e, fl)}
           e == IF parts[k].k \in {"lazystar", "lazyplus"} THEN Min(cands) ELSE Max(cands)
       IN <<e>> \o MatchFrom(parts, k + 1, t, e, fl)

\* the leftmost start offset >= pos at which the pattern matches, or -1
\* the leftmost start offset in lo..hi at which the pattern matches, or -1: short
\* ranges are tried offset by offset, longer ones half by half, left half first
RECURSIVE MatchStartIn(_, _, _, _, _)
MatchStartIn(parts, t, lo, hi, fl) ==
  IF hi - lo < 16
  THEN LET starts == {p \in lo..hi : RestMatches(parts, 1, t, p, fl)}
       IN IF starts = {} THEN -1 ELSE Min(starts)
  ELSE LET mid == (lo + hi) \div 2
           left == MatchStartIn(parts, t, lo, mid, fl)
       IN IF left >= 0 THEN left ELSE MatchStartIn(parts, t, mid + 1, hi, fl)

MatchStart(parts, t, pos, fl) == MatchStartIn(parts, t, pos, Len(t), fl)

(***************************************************************************)
(* SlideType and SlideAnalyzer.type_indicators, in declaration order.      *)
(***************************************************************************)
TITLE == "title"

INTRO == "introduction"

AGENDA == "agenda"

CONTENT == "content"

DATA_VISUAL == "data_visual"

COMPARISON == "comparison"

TRANSITION == "transition"

SUMMARY == "summary"

CONCLUSION == "conclusion"

CALL_TO_ACTION == "call_to_action"

APPENDIX == "appendix"

QA == "questions"

SlideType == {TITLE, INTRO, AGENDA, CONTENT, DATA_VISUAL, COMPARISON, TRANSITION,
              SUMMARY, CONCLUSION, CALL_TO_ACTION, APPENDIX, QA}

Indicator(ty, ps) == [type |-> ty, patterns |-> ps]

type_indicators == <<
  Indicator(TITLE, <<
    Cat(<<Bol, S0, L("slide"), S0, L("1"), S0, L(":")>>),
    Cat(<<L("title"), S0, L("slide")>>),
    Cat(<<L("presentation"), S0, L("title")>>) >>),
  Indicator(INTRO, <<
    L("introduction"),
    Cat(<<L("intro"), WordB>>),
    L("overview"),
    L("welcome"),
    Cat(<<L("about"), S1, Alt(<<L("us"), L("this"), L("our")>>)>>) >>),
  Indicator(AGENDA, <<
    L("agenda"),
    L("outline"),
    Cat(<<L("today"), Opt(Dot), L("s"), S1, Alt(<<L("topics"), L("discussion")>>)>>),
    Cat(<<L("table"), S0, L("of"), S0, L("contents")>>),
    Cat(<<L("what"), S0, L("we"), Opt(Dot), L("ll"), S0, L("cover")>>) >>),
  Indicator(DATA_VISUAL, <<
    L("chart"),
    L("graph"),
    L("table"),
    Cat(<<L("figure"), S0, D1>>),
    L("data"),
    L("statistics"),
    L("metrics"),
    Alt(<<L("%"), L("percent")>>),
    Cat(<<L("growth"), S0, L("rate")>>),
    Cat(<<L("market"), S0, L("size")>>) >>),
  Indicator(COMPARISON, <<
    Alt(<<Cat(<<L("vs"), Opt(L("."))>>), L("versus")>>),
    L("comparison"),
    L("compare"),
    L("difference"),
    Cat(<<L("advantage"), Opt(L("s")), S0, Alt(<<L("and"), L("&")>>), S0,
          L("disadvantage"), Opt(L("s"))>>) >>),
  Indicator(TRANSITION, <<
    Cat(<<L("now"), S0, L("let"), Opt(Dot), L("s")>>),
    Cat(<<L("moving"), S0, Alt(<<L("on"), L("forward")>>)>>),
    L("next"),
    Cat(<<L("turning"), S0, L("to")>>),
    Cat(<<L("shift"), S0, Opt(Cat(<<L("our"), S0>>)), L("focus")>>) >>),
  Indicator(SUMMARY, <<
    L("summary"),
    L("recap"),
    Cat(<<L("key"), S0, Alt(<<L("points"), L("takeaways")>>)>>),
    Cat(<<L("in"), S0, L("summary")>>),
    Cat(<<L("to"), S0, L("summarize")>>) >>),
  Indicator(CONCLUSION, <<
    L("conclusion"),
    L("conclud"),
    Cat(<<L("final"), S0, L("thoughts")>>),
    Cat(<<L("wrap"), S0, L("up")>>),
    L("closing") >>),
  Indicator(CALL_TO_ACTION, <<
    Cat(<<L("next"), S0, L("steps")>>),
    Cat(<<L("action"), S0, L("items")>>),
    L("recommendations"),
    Cat(<<L("what"), S0, L("you"), S0, L("can"), S0, L("do")>>),
    Cat(<<L("call"), S0, L("to"), S0, L("action")>>) >>),
  Indicator(APPENDIX, <<
    L("appendix"),
    Cat(<<L("additional"), S0, L("information")>>),
    L("reference"),
    Cat(<<L("backup"), S0, L("slides")>>) >>),
  Indicator(QA, <<
    Cat(<<L("questions"), Opt(L("?"))>>),
    Cat(<<L("q"), S0, L("&"), S0, L("a")>>),
    L("discussion"),
    Cat(<<L("thank"), S0, L("you")>>) >>) >>

(***************************************************************************)
(* SlideAnalyzer.identify_slide_type.                                      *)
(***************************************************************************)
IgnoreCase == Flags(TRUE, FALSE)

\* faulty variant: the title is left out of the searched text
CombinedText_content_only(slide_title, slide_content) == ToLower(slide_content)

CombinedText(slide_title, slide_content) == ToLower(slide_title \o " " \o slide_content)

\* sum(1 for pattern in patterns if re.search(pattern, combined_text, re.IGNORECASE))
Score(patterns, combined_text) ==
  Cardinality({k \in 1..Len(patterns) : Search(patterns[k], combined_text, IgnoreCase)})

\* the score of every type of the table, in table order
AllScores(combined_text) ==
  [j \in 1..Len(type_indicators) |->
     [type |-> type_indicators[j].type,
      score |-> Score(type_indicators[j].patterns, combined_text)]]

\* faulty variant: the "if score > 0" test is dropped, so every type is inserted
TypeScores_keeping_zero(k, combined_text) ==
  LET all == AllScores(combined_text)
  IN SubSeq(all, k, Len(all))

\* type_scores as the list of its items, in insertion order, for the types from the k-th
\* on: only scores > 0 are inserted
TypeScores(k, combined_text) ==
  LET all == AllScores(combined_text)
      Inserted(item) == item.score > 0
  IN SelectSeq(SubSeq(all, k, Len(all)), Inserted)

\* faulty variant: min instead of max
RECURSIVE MaxItem_min(_, _, _)
MaxItem_min(items, k, best) ==
  IF k > Len(items) THEN best
  ELSE MaxItem_min(items, k + 1, IF items[k].score < best.score THEN items[k] ELSE best)

\* faulty variant: the last of the tied items wins
RECURSIVE MaxItem_last(_, _, _)
MaxItem_last(items, k, best) ==
  IF k > Len(items) THEN best
  ELSE MaxItem_last(items, k + 1, IF items[k].score >= best.score THEN items[k] ELSE best)

\* max(items, key = score): the first item, in iteration order, that no later item exceeds
\* and no earlier item equals or exceeds
RECURSIVE MaxItem(_, _, _)
MaxItem(items, k, best) ==
  IF k > Len(items) THEN best
  ELSE MaxItem(items, k + 1, IF items[k].score > best.score THEN items[k] ELSE best)

\* faulty variant: the slide 1 rule is missing
identify_slide_type_by_patterns_only(slide_title, slide_content, slide_number) ==
  LET type_scores == TypeScores(1, CombinedText(slide_title, slide_content))
  IN IF type_scores # <<>> THEN MaxItem(type_scores, 2, type_scores[1]).type ELSE CONTENT

identify_slide_type(slide_title, slide_content, slide_number) ==
  LET combined_text == CombinedText(slide_title, slide_content)
  IN IF slide_number = 1 THEN TITLE
     ELSE LET type_scores == TypeScores(1, combined_text)
          IN IF type_scores # <<>> THEN MaxItem(type_scores, 2, type_scores[1]).type
             ELSE CONTENT

(***************************************************************************)
(* SlideAnalyzer.visual_patterns and extract_data_insights.                *)
(***************************************************************************)
trend_patterns == <<L("increase"), L("decrease"), L("growth"), L("decline"), L("rise"),
                    L("fall"), L("trend"), L("trajectory")>>

comparison_patterns == <<Cat(<<L("higher"), S0, L("than")>>), Cat(<<L("lower"), S0, L("than")>>),
                         Cat(<<L("compared"), S0, L("to")>>), L("versus"), L("outperform"),
                         L("underperform")>>

outlier_patterns == <<L("significant"), L("notable"), L("exception"), L("unusual"), L("spike"),
                      L("anomaly")>>

\* faulty variant: the keyword may stand anywhere on the line, before the number too
stat_pattern_keyword_anywhere ==
  Cat(<<Look(Cat(<<Star(Dot), Alt(<<L("growth"), L("increase"), L("decrease"), L("market"),
                                     L("share"), L("rate")>>)>>)),
        Star(Dot), WordB, D1>>)

\* faulty variant: the number may continue a word, as the 3 of "q3"
stat_pattern_without_word_boundary ==
  Cat(<<D1, Opt(L(".")), Star(Cls("d")), S0, Opt(L("%")), Star(Dot),
        Alt(<<L("growth"), L("increase"), L("decrease"), L("market"), L("share"), L("rate")>>)>>)

\* r'\b\d+\.?\d*\s*%?.*?(growth|increase|decrease|market|share|rate)'
stat_pattern ==
  Cat(<<WordB, D1, Opt(L(".")), Star(Cls("d")), S0, Opt(L("%")), Star(Dot),
        Alt(<<L("growth"), L("increase"), L("decrease"), L("market"), L("share"), L("rate")>>)>>)

NoFlags == Flags(FALSE, FALSE)

\* for pattern in group: if re.search(pattern, line_lower): append; break
AnyPattern(patterns, line_lower) ==
  \E k \in 1..Len(patterns) : Search(patterns[k], line_lower, NoFlags)

Insights(t, c, o, k) == [trends |-> t, comparisons |-> c, outliers |-> o, key_findings |-> k]

\* faulty variant: no break, the line is appended once for every pattern that matches
GroupAppends_without_break(patterns, line_lower, line) ==
  LET hits == SelectSeq([k \in 1..Len(patterns) |-> k],
                        LAMBDA k : Search(patterns[k], line_lower, NoFlags))
  IN [k \in 1..Len(hits) |-> Strip(line)]

\* what one group's loop appends for a line: the trimmed line once, at the first pattern
\* that matches, or nothing
GroupAppends(patterns, line_lower, line) ==
  IF AnyPattern(patterns, line_lower) THEN <<Strip(line)>> ELSE <<>>

RECURSIVE InsightsLoop(_, _, _)
InsightsLoop(lines, k, insights) ==
  IF k > Len(lines) THEN insights
  ELSE LET line == lines[k]
           line_lower == ToLower(line)
           add(seq, hit) == IF hit THEN Append(seq, Strip(line)) ELSE seq
       IN InsightsLoop(lines, k + 1,
            Insights(insights.trends \o GroupAppends(trend_patterns, line_lower, line),
                     insights.comparisons \o GroupAppends(comparison_patterns, line_lower, line),
                     insights.outliers \o GroupAppends(outlier_patterns, line_lower, line),
                     add(insights.key_findings, Search(stat_pattern, line_lower, NoFlags))))

Reverse(seq) == [k \in 1..Len(seq) |-> seq[Len(seq) + 1 - k]]

\* faulty variant: the lines are visited from the last to the first
extract_data_insights_last_line_first(visual_description) ==
  InsightsLoop(Reverse(SplitLines(visual_description)), 1, Insights(<<>>, <<>>, <<>>, <<>>))

extract_data_insights(visual_description) ==
  InsightsLoop(SplitLines(visual_description), 1, Insights(<<>>, <<>>, <<>>, <<>>))

(***************************************************************************)
(* SlideAnalyzer.get_adaptive_structure.                                   *)
(***************************************************************************)
\* faulty variant: a table entry loses its first template string
Entry_dropping_first_template(bullets, focus, template) ==
  [bullets |-> bullets, focus |-> focus, template |-> Tail(template)]

Entry(bullets, focus, template) == [bullets |-> bullets, focus |-> focus, template |-> template]

\* dict.get(key, default)
DictGet(d, key, default) == IF key \in DOMAIN d THEN d[key] ELSE default

title_structure ==
  [Brief |-> Entry(1, <<"Company/topic name", "Key theme">>,
       <<"Introducing [topic] - [key value proposition]">>),
   Standard |-> Entry(2, <<"Introduction", "Context">>,
       <<"Welcome audience and introduce [topic]",
         "Frame the discussion around [key theme/challenge]">>),
   Detailed |-> Entry(3, <<"Introduction", "Context", "Preview">>,
       <<"Welcome and establish credibility on [topic]",
         "Set context: [current situation/challenge]",
         "Preview: We'll explore [main points]">>)]

data_visual_structure ==
  [Brief |-> Entry(2, <<"Key stat", "Implication">>,
       <<"[Main data point] shows [trend/finding]",
         "This means [business impact]">>),
   Standard |-> Entry(3, <<"Data highlight", "Insight", "Action">>,
       <<"The data reveals [key finding with number]",
         "This [confirms/challenges] our understanding of [topic]",
         "Implication: [what this means for strategy]">>),
   Detailed |-> Entry(4, <<"Context", "Data", "Analysis", "Implications">>,
       <<"Context: [Why this data matters]",
         "Key finding: [Specific numbers and trends]",
         "Notable: [Outliers or comparisons]",
         "Strategic implication: [How this shapes decisions]">>)]

comparison_structure ==
  [Brief |-> Entry(2, <<"Winner", "Key differentiator">>,
       <<"[Option A] outperforms with [key metric]",
         "Main advantage: [differentiator]">>),
   Standard |-> Entry(3, <<"Overview", "Key differences", "Recommendation">>,
       <<"Comparing [A] vs [B] on [criteria]",
         "Key difference: [A] excels at [X], while [B] offers [Y]",
         "For our needs, [recommendation] because [reason]">>),
   Detailed |-> Entry(4, <<"Setup", "Strengths", "Trade-offs", "Decision">>,
       <<"We're evaluating [options] based on [criteria]",
         "[A] strengths: [list], [B] strengths: [list]",
         "Trade-offs to consider: [key considerations]",
         "Recommendation: [choice] aligns with [strategic priority]">>)]

conclusion_structure ==
  [Brief |-> Entry(2, <<"Main takeaway", "Next step">>,
       <<"Key insight: [main finding/recommendation]",
         "Next: [immediate action]">>),
   Standard |-> Entry(3, <<"Recap", "Conclusion", "Call to action">>,
       <<"We've seen [key points recap]",
         "This leads us to conclude [main insight]",
         "Moving forward: [specific next steps]">>),
   Detailed |-> Entry(4, <<"Journey", "Insights", "Implications", "Actions">>,
       <<"Our analysis covered [main topics]",
         "Key insights: [top 2-3 findings]",
         "This means [strategic implications]",
         "Recommended actions: [prioritized next steps]">>)]

structures ==
  (TITLE :> title_structure) @@ (DATA_VISUAL :> data_visual_structure)
    @@ (COMPARISON :> comparison_structure) @@ (CONCLUSION :> conclusion_structure)

default_structure ==
  [Brief |-> Entry(2, <<"Main point", "Why it matters">>,
       <<"[Key message]", "[Impact/relevance]">>),
   Standard |-> Entry(3, <<"Point", "Evidence", "Implication">>,
       <<"[Main message]", "[Supporting evidence/example]", "[What this means for audience]">>),
   Detailed |-> Entry(4, <<"Context", "Point", "Support", "Application">>,
       <<"[Setup/context]", "[Main point]", "[Evidence/examples]",
         "[How to apply/next steps]">>)]

\* faulty variant: an unrecognized verbosity falls back to the Brief entry
get_adaptive_structure_brief_fallback(slide_type, verbosity) ==
  DictGet(DictGet(structures, slide_type, default_structure), verbosity,
          default_structure["Brief"])

get_adaptive_structure(slide_type, verbosity) ==
  DictGet(DictGet(structures, slide_type, default_structure), verbosity,
          default_structure["Standard"])

(***************************************************************************)
(* SlideAnalyzer.generate_storytelling_transition.                         *)
(***************************************************************************)
transitions ==
  (<<INTRO, CONTENT>> :> "Now let's dive into the details...")
    @@ (<<CONTENT, DATA_VISUAL>> :> "Let me show you what the data reveals...")
    @@ (<<DATA_VISUAL, CONTENT>> :> "These numbers tell us something important...")
    @@ (<<CONTENT, COMPARISON>> :> "To put this in perspective, let's compare...")
    @@ (<<COMPARISON, CONTENT>> :> "Based on this comparison...")
    @@ (<<CONTENT, CONCLUSION>> :> "This brings us to our key takeaways...")
    @@ (<<CONCLUSION, CALL_TO_ACTION>> :> "So what does this mean for you?")
    @@ (<<CONTENT, CONTENT>> :> "Building on this point...")
    @@ (<<DATA_VISUAL, DATA_VISUAL>> :> "Here's another important data point...")

\* faulty variant: the pair is looked up in the opposite order
generate_storytelling_transition_swapped(from_type, to_type) ==
  DictGet(transitions, <<to_type, from_type>>, "Moving to our next topic...")

generate_storytelling_transition(from_type, to_type) ==
  DictGet(transitions, <<from_type, to_type>>, "Moving to our next topic...")

(***************************************************************************)
(* analyze_presentation_intelligence.                                      *)
(***************************************************************************)
IgnoreCaseDotAll == Flags(TRUE, TRUE)

\* (?=Slide\s+\d+:|$)
NextSlideOrEnd == Look(Alt(<<Cat(<<L("Slide"), S1, D1, L(":")>>), Eol>>))

\* r'Slide\s+(\d+):\s*(.+?)(?=Slide\s+\d+:|$)': group 1 is part 3, group 2 is part 6
slide_pattern == <<L("Slide"), S1, D1, L(":"), S0, LazyPlus(Dot), NextSlideOrEnd>>

\* faulty variant: a greedy .* that runs over the following markers
visual_pattern_greedy(slide_num) ==
  <<L("Slide"), S1, L(IntToStr(slide_num)), L(":"), Star(Dot), NextSlideOrEnd>>

\* f'Slide\\s+{slide_num}:.*?(?=Slide\\s+\\d+:|$)'
visual_pattern(slide_num) ==
  <<L("Slide"), S1, L(IntToStr(slide_num)), L(":"), LazyStar(Dot), NextSlideOrEnd>>

\* re.findall(slide_pattern, outline, re.IGNORECASE | re.DOTALL): the (group 1, group 2) pairs
RECURSIVE FindAllSlides(_, _)
FindAllSlides(outline, pos) ==
  LET start == MatchStart(slide_pattern, outline, pos, IgnoreCaseDotAll)
  IN IF start < 0 THEN <<>>
     ELSE LET e == MatchFrom(slide_pattern, 1, outline, start, IgnoreCaseDotAll)
          IN <<[slide_num |-> SubSeq(outline, e[2] + 1, e[3]),
                slide_title |-> SubSeq(outline, e[5] + 1, e[6])]>>
               \o FindAllSlides(outline, IF e[7] > start THEN e[7] ELSE start + 1)

\* visual_match = re.search(visual_pattern, visuals, ...); group(0), or "" when no match
VisualContent(slide_num, visuals) ==
  LET parts == visual_pattern(slide_num)
      start == MatchStart(parts, visuals, 0, IgnoreCaseDotAll)
  IN IF start < 0 THEN ""
     ELSE SubSeq(visuals, start + 1,
                 MatchFrom(parts, 1, visuals, start, IgnoreCaseDotAll)[Len(parts)])

EmptyDict == <<>>

\* faulty variant: insights are extracted for every slide with a visual block, whatever its type
SlideRecord_insights_for_any_type(slide_num, slide_title, visuals) ==
  LET visual_content == VisualContent(slide_num, visuals)
      slide_type == identify_slide_type(slide_title, visual_content, slide_num)
      insights == IF visual_content # ""
                  THEN extract_data_insights(visual_content) ELSE EmptyDict
  IN [has_visual |-> visual_content # "", title |-> Strip(slide_title),
      type |-> slide_type, insights |-> insights]

\* faulty variant: the slide is classified without its number
SlideRecord_type_without_number(slide_num, slide_title, visuals) ==
  LET visual_content == VisualContent(slide_num, visuals)
      slide_type == identify_slide_type_by_patterns_only(slide_title, visual_content, slide_num)
      insights == IF slide_type = DATA_VISUAL /\ visual_content # ""
                  THEN extract_data_insights(visual_content) ELSE EmptyDict
  IN [has_visual |-> visual_content # "", title |-> Strip(slide_title),
      type |-> slide_type, insights |-> insights]

SlideRecord(slide_num, slide_title, visuals) ==
  LET visual_content == VisualContent(slide_num, visuals)
      slide_type == identify_slide_type(slide_title, visual_content, slide_num)
      insights == IF slide_type = DATA_VISUAL /\ visual_content # ""
                  THEN extract_data_insights(visual_content) ELSE EmptyDict
  IN [has_visual |-> visual_content # "", title |-> Strip(slide_title),
      type |-> slide_type, insights |-> insights]

\* intelligence[slide_num] = {...}
DictSet(d, key, value) == [k \in DOMAIN d \cup {key} |-> IF k = key THEN value ELSE d[k]]

\* faulty variant: a number keeps the record of the first slide that carries it
AnalyzeLoop_first_marker_wins(slides, i, visuals, intelligence) ==
  LET rest == i..Len(slides)
      num(j) == StrToInt(slides[j].slide_num)
      nums == {num(j) : j \in rest}
      first(n) == Min({j \in rest : num(j) = n})
  IN [n \in DOMAIN intelligence \cup nums |->
        IF n \in DOMAIN intelligence THEN intelligence[n]
        ELSE SlideRecord(n, slides[first(n)].slide_title, visuals)]

\* the loop of lines 420-443 over the slides from the i-th on, starting from intelligence:
\* every slide assigns the record of its number, so a number ends with the record of
\* the last slide that carries it and the other keys of intelligence are kept
AnalyzeLoop(slides, i, visuals, intelligence) ==
  LET rest == i..Len(slides)
      num(j) == StrToInt(slides[j].slide_num)
      nums == {num(j) : j \in rest}
      last(n) == Max({j \in rest : num(j) = n})
  IN [n \in DOMAIN intelligence \cup nums |->
        IF n \in nums THEN SlideRecord(n, slides[last(n)].slide_title, visuals)
        ELSE intelligence[n]]

analyze_presentation_intelligence(outline, visuals) ==
  AnalyzeLoop(FindAllSlides(outline, 0), 1, visuals, EmptyDict)

(***************************************************************************)
(* format_intelligent_notes.                                               *)
(***************************************************************************)
\* the bullet character U+2022 of the note lines, written in ASCII
Bullet == "*"

\* prev_slide_type = None
None == "None"

\* bool(d) and any(d.values()) of a dict of lists
Truthy(d) == DOMAIN d # {}

AnyValue(d) == \E k \in DOMAIN d : d[k] # <<>>

\* faulty variant: the transition is emitted whenever a previous type is given
TransitionLines_even_when_equal(prev_slide_type, slide_type) ==
  IF prev_slide_type # None
  THEN <<Bullet \o " (Transition) " \o generate_storytelling_transition(prev_slide_type, slide_type)>>
  ELSE <<>>

TransitionLines(prev_slide_type, slide_type) ==
  IF prev_slide_type # None /\ prev_slide_type # slide_type
  THEN <<Bullet \o " (Transition) " \o generate_storytelling_transition(prev_slide_type, slide_type)>>
  ELSE <<>>

\* faulty variant: the template lines come out in reverse order
TemplateLines_reversed(template) ==
  [k \in 1..Len(template) |-> Bullet \o " " \o template[Len(template) + 1 - k]]

TemplateLines(template) == [k \in 1..Len(template) |-> Bullet \o " " \o template[k]]

\* faulty variant: the outlier line comes before the trend line
InsightLines_of_outlier_first(insights) ==
  IF Truthy(insights) /\ AnyValue(insights)
  THEN (IF DictGet(insights, "outliers", <<>>) # <<>>
        THEN <<Bullet \o " Notable: " \o insights["outliers"][1]>> ELSE <<>>)
       \o (IF DictGet(insights, "trends", <<>>) # <<>>
           THEN <<Bullet \o " Key trend: " \o insights["trends"][1]>> ELSE <<>>)
  ELSE <<>>

InsightLines_of(insights) ==
  IF Truthy(insights) /\ AnyValue(insights)
  THEN (IF DictGet(insights, "trends", <<>>) # <<>>
        THEN <<Bullet \o " Key trend: " \o insights["trends"][1]>> ELSE <<>>)
       \o (IF DictGet(insights, "outliers", <<>>) # <<>>
           THEN <<Bullet \o " Notable: " \o insights["outliers"][1]>> ELSE <<>>)
  ELSE <<>>

Header(slide_num, slide_intel) == "Slide " \o IntToStr(slide_num) \o ": " \o slide_intel.title

\* faulty variant: the transition line is appended after the template lines
format_intelligent_notes_transition_last(slide_num, slide_intel, verbosity, prev_slide_type) ==
  LET slide_type == slide_intel.type
      structure == get_adaptive_structure(slide_type, verbosity)
      notes == <<Header(slide_num, slide_intel)>>
                 \o TemplateLines(structure.template)
                 \o TransitionLines(prev_slide_type, slide_type)
                 \o InsightLines_of(slide_intel.insights)
  IN Join(notes, "\n")

format_intelligent_notes(slide_num, slide_intel, verbosity, prev_slide_type) ==
  LET slide_type == slide_intel.type
      structure == get_adaptive_structure(slide_type, verbosity)
      notes == <<Header(slide_num, slide_intel)>>
                 \o TransitionLines(prev_slide_type, slide_type)
                 \o TemplateLines(structure.template)
                 \o InsightLines_of(slide_intel.insights)
  IN Join(notes, "\n")

(***************************************************************************)
(* Bounded inputs of the calls.                                            *)
(***************************************************************************)
MaxTitleWords == 2

MaxLines == 2

MaxSlides == 2

SeqsUpTo(S, n) == UNION {[1..k -> S] : k \in 0..n}

TitleWords == {"Welcome", "Agenda", "Next steps", "In summary", "Budget"}

LiteralTitles == {"Agenda for Today"}

Titles == {Join(ws, " ") : ws \in SeqsUpTo(TitleWords, MaxTitleWords)} \cup LiteralTitles

Contents == {"", "Sales data table: 15% growth rate", "Today's discussion", "Team photo"}

SlideNumbers == {1, 2}

InsightLines == {"Sales increased 15% due to strong demand", "No relevant data here",
                 "  Notable spike: 3.5 % market share, higher than 2020 ", "",
                 "Growth of 20", "Q3 market share"}

VisualDescriptions == {Join(ls, "\n") : ls \in SeqsUpTo(InsightLines, MaxLines)}

Verbosities == {"Brief", "Standard", "Detailed", "Unknown", "standard"}

OutlineSlides == {"Slide 1: Welcome", "Slide 2: Q1 Sales Data", "slide  3:",
                  "Slide 04: Data table", "Slide x: Notes", "Slide 1: Revenue chart"}

Outlines == {Join(ms, "\n") : ms \in SeqsUpTo(OutlineSlides, MaxSlides)}

VisualsTexts == {"",
                 "Slide 1: Logo and chart, 10% growth\nSlide 2: Bar chart: sales increased 15%\nNotable spike in Q1",
                 "Slide 4: Table of data\n",
                 "Slide 1: Company logo\nSlide 2: Photo of the team"}

IntelTitles == {"Q1 Sales Data", "Welcome\nSlide x: Notes"}

InsightBundles ==
  {Insights(<<>>, <<>>, <<>>, <<>>),
   Insights(<<"Sales increased 15%", "Growth of 20">>, <<>>, <<"Notable spike in Q1">>,
            <<"Sales increased 15%">>),
   Insights(<<>>, <<"Costs higher than 2020">>, <<>>, <<"3.5 % market share">>),
   Insights(<<>>, <<>>, <<"Notable spike in Q1", "Unusual dip">>, <<>>),
   Insights(<<"Growth of 20">>, <<>>, <<>>, <<>>)}

PrevTypes == SlideType \cup {None}

(***************************************************************************)
(* The calls as a state machine: a call is drawn with its inputs, then the *)
(* function runs to completion and leaves its return value in result.      *)
(* frames holds the locals of calls that run step by step (the interleaved *)
(* calls further down); a call that runs to completion keeps none. state   *)
(* and history belong to the event handlers of main.py, modelled after the *)
(* interleaved calls, and stay empty here.                                 *)
(***************************************************************************)
VARIABLES pc, op, args, result, frames, state, history

vars == <<pc, op, args, result, frames, state, history>>

Init ==
  /\ pc = "call"
  /\ result = "none"
  /\ frames = EmptyDict
  /\ state = EmptyDict
  /\ history = EmptyDict
  /\ \/ /\ op = "identify_slide_type"
        /\ args \in [slide_title : Titles, slide_content : Contents, slide_number : SlideNumbers]
     \/ /\ op = "extract_data_insights"
        /\ args \in [visual_description : VisualDescriptions]
     \/ /\ op = "get_adaptive_structure"
        /\ args \in [slide_type : SlideType, verbosity : Verbosities]
     \/ /\ op = "generate_storytelling_transition"
        /\ args \in [from_type : SlideType, to_type : SlideType]
     \/ /\ op = "analyze_presentation_intelligence"
        /\ args \in [outline : Outlines, visuals : VisualsTexts]
     \/ /\ op = "format_intelligent_notes"
        /\ \E slide_num \in SlideNumbers, title \in IntelTitles, type \in SlideType,
              verbosity \in Verbosities, prev_slide_type \in PrevTypes :
              \/ args = [slide_num |-> slide_num, verbosity |-> verbosity,
                         prev_slide_type |-> prev_slide_type,
                         slide_intel |-> [title |-> title, type |-> type,
                                          insights |-> EmptyDict, has_visual |-> FALSE]]
              \/ \E insights \in InsightBundles :
                    args = [slide_num |-> slide_num, verbosity |-> verbosity,
                            prev_slide_type |-> prev_slide_type,
                            slide_intel |-> [title |-> title, type |-> type,
                                             insights |-> insights, has_visual |-> TRUE]]

Return(value) ==
  /\ pc' = "done"
  /\ result' = value
  /\ UNCHANGED <<op, args, frames, state, history>>

IdentifySlideType ==
  /\ pc = "call" /\ op = "identify_slide_type"
  /\ Return(identify_slide_type(args.slide_title, args.slide_content, args.slide_number))

ExtractDataInsights ==
  /\ pc = "call" /\ op = "extract_data_insights"
  /\ Return(extract_data_insights(args.visual_description))

GetAdaptiveStructure ==
  /\ pc = "call" /\ op = "get_adaptive_structure"
  /\ Return(get_adaptive_structure(args.slide_type, args.verbosity))

GenerateStorytellingTransition ==
  /\ pc = "call" /\ op = "generate_storytelling_transition"
  /\ Return(generate_storytelling_transition(args.from_type, args.to_type))

AnalyzePresentationIntelligence ==
  /\ pc = "call" /\ op = "analyze_presentation_intelligence"
  /\ Return(analyze_presentation_intelligence(args.outline, args.visuals))

FormatIntelligentNotes ==
  /\ pc = "call" /\ op = "format_intelligent_notes"
  /\ Return(format_intelligent_notes(args.slide_num, args.slide_intel, args.verbosity,
                                     args.prev_slide_type))

Next ==
  \/ IdentifySlideType
  \/ ExtractDataInsights
  \/ GetAdaptiveStructure
  \/ GenerateStorytellingTransition
  \/ AnalyzePresentationIntelligence
  \/ FormatIntelligentNotes

Spec == Init /\ [][Next]_vars

Returned(name) == pc = "done" /\ op = name

(***************************************************************************)
(* Interleaved calls.  Two callers each run one call of                    *)
(* analyze_presentation_intelligence or format_intelligent_notes, one      *)
(* statement group at a time, in any interleaving.  pc, op, args and       *)
(* result are per caller; frames holds the locals of each running call.    *)
(* The pattern and template tables are built anew by every call            *)
(* (SlideAnalyzer() at lines 413 and 461, the tables of lines 229-371 on   *)
(* every lookup) and no statement assigns to them afterwards, so they are  *)
(* the same definitions as in the sequential calls.                        *)
(***************************************************************************)
Procs == {1, 2}

ConcurrentOutlines == {"Slide 1: Welcome\nSlide 2: Q1 Sales Data", "Slide 2: Agenda"}

ConcurrentVisuals ==
  {"", "Slide 1: Logo and chart\nSlide 2: Bar chart: sales increased 15%\nNotable spike in Q1"}

ConcurrentIntels ==
  {[title |-> "Q1 Sales Data", type |-> DATA_VISUAL, has_visual |-> TRUE,
    insights |-> Insights(<<"Sales increased 15%">>, <<>>, <<"Notable spike in Q1">>, <<>>)],
   [title |-> "Next steps", type |-> CALL_TO_ACTION, has_visual |-> TRUE,
    insights |-> Insights(<<>>, <<>>, <<>>, <<>>)]}

ConcurrentOps == {"analyze_presentation_intelligence", "format_intelligent_notes"}

ConcurrentArgs(name) ==
  IF name = "analyze_presentation_intelligence"
  THEN [outline : ConcurrentOutlines, visuals : ConcurrentVisuals]
  ELSE [slide_num : {2}, slide_intel : ConcurrentIntels, verbosity : {"Brief"},
        prev_slide_type : {None, CONCLUSION}]

\* the locals of a call: slides, the loop position, intelligence (analysis);
\* the template list and notes (formatting)
EmptyFrame == [slides |-> <<>>, i |-> 0, intelligence |-> EmptyDict, template |-> <<>>,
               notes |-> <<>>]

\* faulty variant: all calls keep their locals in one place
FrameOf_shared(p) == 1

\* each call has locals of its own
FrameOf(p) == p

InitConcurrent ==
  /\ pc = [p \in Procs |-> "call"]
  /\ result = [p \in Procs |-> "none"]
  /\ frames = [f \in Procs |-> EmptyFrame]
  /\ state = EmptyDict
  /\ history = EmptyDict
  /\ \E name1 \in ConcurrentOps, name2 \in ConcurrentOps :
        /\ op = [p \in Procs |-> IF p = 1 THEN name1 ELSE name2]
        /\ \E args1 \in ConcurrentArgs(name1), args2 \in ConcurrentArgs(name2) :
              args = [p \in Procs |-> IF p = 1 THEN args1 ELSE args2]

Goto(p, label) == pc' = [pc EXCEPT ![p] = label]

SetFrame(p, frame) == frames' = [frames EXCEPT ![FrameOf(p)] = frame]

\* lines 413-418: analyzer, intelligence = {}, slides = re.findall(...)
StartAnalysis(p) ==
  /\ pc[p] = "call" /\ op[p] = "analyze_presentation_intelligence"
  /\ SetFrame(p, [EmptyFrame EXCEPT !.slides = FindAllSlides(args[p].outline, 0)])
  /\ Goto(p, "loop")
  /\ UNCHANGED <<op, args, result, state, history>>

\* lines 420-443: one iteration of the loop over slides
AnalyzeSlide(p) ==
  /\ pc[p] = "loop"
  /\ LET frame == frames[FrameOf(p)]
     IN /\ frame.i < Len(frame.slides)
        /\ LET slide == frame.slides[frame.i + 1]
               slide_num == StrToInt(slide.slide_num)
           IN SetFrame(p, [frame EXCEPT
                 !.i = frame.i + 1,
                 !.intelligence = DictSet(frame.intelligence, slide_num,
                                          SlideRecord(slide_num, slide.slide_title,
                                                      args[p].visuals))])
  /\ UNCHANGED <<pc, op, args, result, state, history>>

\* line 445: return intelligence
ReturnAnalysis(p) ==
  /\ pc[p] = "loop"
  /\ frames[FrameOf(p)].i >= Len(frames[FrameOf(p)].slides)
  /\ result' = [result EXCEPT ![p] = frames[FrameOf(p)].intelligence]
  /\ Goto(p, "done")
  /\ UNCHANGED <<op, args, frames, state, history>>

\* lines 461-465: analyzer, structure, notes = [header]
StartFormat(p) ==
  /\ pc[p] = "call" /\ op[p] = "format_intelligent_notes"
  /\ SetFrame(p, [EmptyFrame EXCEPT
        !.template = get_adaptive_structure(args[p].slide_intel.type,
                                            args[p].verbosity).template,
        !.notes = <<Header(args[p].slide_num, args[p].slide_intel)>>])
  /\ Goto(p, "transition")
  /\ UNCHANGED <<op, args, result, state, history>>

\* lines 468-470
AppendTransition(p) ==
  /\ pc[p] = "transition"
  /\ LET frame == frames[FrameOf(p)]
     IN SetFrame(p, [frame EXCEPT
           !.notes = frame.notes \o TransitionLines(args[p].prev_slide_type,
                                                    args[p].slide_intel.type)])
  /\ Goto(p, "templates")
  /\ UNCHANGED <<op, args, result, state, history>>

\* lines 473-474: one iteration of the loop over the templates
AppendTemplate(p) ==
  /\ pc[p] = "templates"
  /\ LET frame == frames[FrameOf(p)]
     IN /\ frame.i < Len(frame.template)
        /\ SetFrame(p, [frame EXCEPT
              !.i = frame.i + 1,
              !.notes = frame.notes \o <<TemplateLines(frame.template)[frame.i + 1]>>])
  /\ UNCHANGED <<pc, op, args, result, state, history>>

\* lines 477-481, once the template loop has ended
AppendInsights(p) ==
  /\ pc[p] = "templates"
  /\ LET frame == frames[FrameOf(p)]
     IN /\ frame.i >= Len(frame.template)
        /\ SetFrame(p, [frame EXCEPT
              !.notes = frame.notes \o InsightLines_of(args[p].slide_intel.insights)])
  /\ Goto(p, "join")
  /\ UNCHANGED <<op, args, result, state, history>>

\* line 483: return '\n'.join(notes)
ReturnFormat(p) ==
  /\ pc[p] = "join"
  /\ result' = [result EXCEPT ![p] = Join(frames[FrameOf(p)].notes, "\n")]
  /\ Goto(p, "done")
  /\ UNCHANGED <<op, args, frames, state, history>>

NextConcurrent ==
  \E p \in Procs :
     \/ StartAnalysis(p)
     \/ AnalyzeSlide(p)
     \/ ReturnAnalysis(p)
     \/ StartFormat(p)
     \/ AppendTransition(p)
     \/ AppendTemplate(p)
     \/ AppendInsights(p)
     \/ ReturnFormat(p)

SpecConcurrent == InitConcurrent /\ [][NextConcurrent]_vars

(***************************************************************************)
(* The event handlers of main.py on the application state. state is the    *)
(* Writer state the handlers share; the framework runs each event's        *)
(* handler on a thread of its own, so handle_generate and                  *)
(* handle_stop_generate advance statement by statement (pc holds their     *)
(* positions as line labels, frames the locals of handle_generate) while   *)
(* the short input and download handlers run to completion in one step,    *)
(* between the runs of handle_generate. args holds the environment         *)
(* (WRITER_API_KEY set or not). history counts the runs of handle_generate *)
(* and remembers for which run a stop request was made and where the run   *)
(* stood when the flag was set; no handler reads it.                       *)
(***************************************************************************)
MaxRuns == 2

MaxBriefingFiles == 1

UploadFile == "Upload File"

EnterText == "Enter Text"

InputMethods == {UploadFile, EnterText}

\* the texts of a deck and of a briefing, as entered or as extracted from an uploaded file
DeckTexts == {"", "deck text"}

BriefingTexts == {"", "briefing text"}

DeckName == "deck.pptx"

DeckPath == "data/deck_deck.pptx"

BriefingPath == "data/briefing_notes.pdf"

ResultKeys == {"outline", "visuals", "briefing_info", "mapping", "speaker_notes"}

DownloadKeys == {"outline", "speaker_notes"}

\* bool(x) of a string or None
NonEmpty(x) == x # None /\ x # ""

\* x or ""
OrEmpty(x) == IF x = None THEN "" ELSE x

\* lines 438-473
initial_state ==
  [deck_file |-> [name |-> None, path |-> None, text_content |-> None],
   briefing_files |-> <<>>,
   processing_step |-> "idle",
   processing_message |-> "Upload your presentation deck and briefing document(s).",
   results |-> [k \in ResultKeys |-> ""],
   generate_disabled |-> "yes",
   download_disabled |-> "yes",
   deck_input_method |-> UploadFile,
   briefing_input_method |-> UploadFile,
   briefing_manual_text |-> "",
   is_generating |-> FALSE,
   stop_requested |-> FALSE]

\* lines 423-427 and 576-580
DeckReady(s) ==
  IF s.deck_input_method = UploadFile THEN NonEmpty(s.deck_file.path)
  ELSE IF s.deck_input_method = EnterText THEN NonEmpty(s.deck_file.text_content)
  ELSE FALSE

\* lines 582-586
BriefingReady(s) ==
  IF s.briefing_input_method = UploadFile THEN Len(s.briefing_files) > 0
  ELSE IF s.briefing_input_method = EnterText THEN NonEmpty(s.briefing_manual_text)
  ELSE FALSE

\* _update_generate_button_state, lines 421-430
update_generate_button_state(s) ==
  [s EXCEPT !.generate_disabled = IF s.is_generating \/ ~DeckReady(s) THEN "yes" ELSE "no"]

Message(s, text) == [s EXCEPT !.processing_message = text]

\* handle_deck_upload, lines 477-501: outcome "none" is an empty payload, "failed" an
\* error while the file is written, "saved" the upload
handle_deck_upload(s, outcome) ==
  IF outcome = "none" THEN Message(s, "-No deck file uploaded.")
  ELSE IF outcome = "failed" THEN Message(s, "-Error uploading deck: OSError")
  ELSE update_generate_button_state(
         Message([s EXCEPT !.deck_file = [name |-> DeckName, path |-> DeckPath,
                                          text_content |-> None]],
                 "+Deck '" \o DeckName \o "' uploaded."))

\* handle_briefing_upload, lines 503-527, for a payload of one file
handle_briefing_upload(s, outcome) ==
  IF outcome = "none" THEN Message(s, "-No briefing file(s) uploaded.")
  ELSE IF outcome = "failed" THEN Message(s, "-Error uploading briefing(s): OSError")
  ELSE update_generate_button_state(
         Message([s EXCEPT !.briefing_files = @ \o <<[path |-> BriefingPath, text_content |-> None]>>,
                           !.briefing_manual_text = ""],
                 "+1 briefing file(s) added."))

\* handle_deck_method_change, lines 529-539
handle_deck_method_change(s, payload) ==
  update_generate_button_state(
    [s EXCEPT !.deck_input_method = payload,
              !.deck_file = IF payload = UploadFile THEN [@ EXCEPT !.text_content = None]
                            ELSE [@ EXCEPT !.path = None, !.name = None]])

\* handle_briefing_method_change, lines 541-549
handle_briefing_method_change(s, payload) ==
  update_generate_button_state(
    [s EXCEPT !.briefing_input_method = payload,
              !.briefing_manual_text = IF payload = UploadFile THEN "" ELSE @,
              !.briefing_files = IF payload = UploadFile THEN @ ELSE <<>>])

\* handle_save_deck_text, lines 551-557, with deck_text_input holding text
handle_save_deck_text(s, text) ==
  update_generate_button_state(
    Message([s EXCEPT !.deck_file = [name |-> "Manual Text Input", path |-> None,
                                     text_content |-> text]],
            "+Deck text saved."))

\* handle_save_briefing_text, lines 559-563, with briefing_text_input holding text
handle_save_briefing_text(s, text) ==
  update_generate_button_state(
    Message([s EXCEPT !.briefing_manual_text = text, !.briefing_files = <<>>],
            "+Briefing text saved."))

\* _download_content_as_docx, lines 351-386; built tells whether the document could be made
download_content_as_docx(s, content_key, built) ==
  IF content_key \notin DOMAIN s.results
  THEN Message(s, "!Results not available for download.")
  ELSE IF s.results[content_key] = ""
  THEN Message(s, "!Content for '" \o content_key \o "' not available for download.")
  ELSE IF built
  THEN Message(s, "+Download initiated for " \o content_key \o "_notes.docx.")
  ELSE Message(s, "-Error preparing DOCX download for '" \o content_key \o "': RuntimeError")

\* the exceptions that end the try block of handle_generate, by type name
GenerationStoppedError == "GenerationStoppedError"

ValueError == "ValueError"

RuntimeError == "RuntimeError"

APIError == "APIError"

NameError == "NameError"

\* the locals of handle_generate; raised is the exception in flight, if any
NoLocals ==
  [deck_ready |-> FALSE, briefing_ready |-> FALSE, deck_text |-> "",
   combined_briefing_text |-> "", raised |-> None]

\* lines 597-602 after is_generating and stop_requested are set
start_generation(s) ==
  [s EXCEPT !.generate_disabled = "yes", !.download_disabled = "yes",
            !.processing_step = "idle", !.results = EmptyDict]

\* lines 816-819
on_generation_stopped(s) ==
  [s EXCEPT !.processing_message = "!Generation stopped by user.", !.processing_step = ""]

\* faulty variant: what was produced before the error is offered for download
on_error_enabling_download(s, type_name) ==
  [s EXCEPT !.processing_message = "-An error occurred during step '" \o s.processing_step
                                      \o "': " \o type_name,
            !.processing_step = "",
            !.download_disabled = "no"]

\* lines 820-824
on_error(s, type_name) ==
  [s EXCEPT !.processing_message = "-An error occurred during step '" \o s.processing_step
                                      \o "': " \o type_name,
            !.processing_step = ""]

InitUI ==
  /\ pc = [generate |-> "idle", stop |-> "idle"]
  /\ op = "main"
  /\ args \in [api_key : BOOLEAN]
  /\ result = "none"
  /\ frames = NoLocals
  /\ state = initial_state
  /\ history = [runs |-> 0, request_run |-> 0, flag_run |-> 0, stop_at |-> "none"]

Generate(label) == pc' = [pc EXCEPT !.generate = label]

Stop(label) == pc' = [pc EXCEPT !.stop = label]

\* raise: control passes to the matching except clause of lines 816-824
Raise(type_name) ==
  /\ frames' = [frames EXCEPT !.raised = type_name]
  /\ Generate(IF type_name = GenerationStoppedError THEN "l817" ELSE "l821")

Env == <<op, args, result>>

\* the short handlers, each run to completion
DeckUpload ==
  /\ pc.generate = "idle"
  /\ \E outcome \in {"none", "failed", "saved"} : state' = handle_deck_upload(state, outcome)
  /\ UNCHANGED <<pc, frames, history, Env>>

BriefingUpload ==
  /\ pc.generate = "idle"
  /\ \E outcome \in {"none", "failed", "saved"} :
        /\ outcome = "saved" => Len(state.briefing_files) < MaxBriefingFiles
        /\ state' = handle_briefing_upload(state, outcome)
  /\ UNCHANGED <<pc, frames, history, Env>>

DeckMethodChange ==
  /\ pc.generate = "idle"
  /\ \E payload \in InputMethods : state' = handle_deck_method_change(state, payload)
  /\ UNCHANGED <<pc, frames, history, Env>>

BriefingMethodChange ==
  /\ pc.generate = "idle"
  /\ \E payload \in InputMethods : state' = handle_briefing_method_change(state, payload)
  /\ UNCHANGED <<pc, frames, history, Env>>

SaveDeckText ==
  /\ pc.generate = "idle"
  /\ \E text \in DeckTexts : state' = handle_save_deck_text(state, text)
  /\ UNCHANGED <<pc, frames, history, Env>>

SaveBriefingText ==
  /\ pc.generate = "idle"
  /\ \E text \in BriefingTexts : state' = handle_save_briefing_text(state, text)
  /\ UNCHANGED <<pc, frames, history, Env>>

Download ==
  /\ pc.generate = "idle"
  /\ \E content_key \in DownloadKeys, built \in BOOLEAN :
        state' = download_content_as_docx(state, content_key, built)
  /\ UNCHANGED <<pc, frames, history, Env>>

\* handle_stop_generate, lines 565-572, statement by statement
StopCheck ==
  /\ pc.stop = "idle"
  /\ Stop(IF state.is_generating THEN "l568" ELSE "l572")
  /\ history' = [history EXCEPT !.request_run = IF state.is_generating THEN history.runs ELSE 0]
  /\ UNCHANGED <<state, frames, Env>>

StopSetFlag ==
  /\ pc.stop = "l568"
  /\ state' = [state EXCEPT !.stop_requested = TRUE]
  /\ history' = [history EXCEPT
        !.flag_run = history.request_run,
        !.stop_at = IF history.request_run = history.runs /\ pc.generate # "idle"
                    THEN pc.generate ELSE @]
  /\ Stop("l569")
  /\ UNCHANGED <<frames, Env>>

StopMessage ==
  /\ pc.stop = "l569"
  /\ state' = Message(state, "!Stopping generation...")
  /\ Stop("idle")
  /\ history' = [history EXCEPT !.request_run = 0]
  /\ UNCHANGED <<frames, Env>>

StopNotRunning ==
  /\ pc.stop = "l572"
  /\ state' = Message(state, "!Generation is not currently running.")
  /\ Stop("idle")
  /\ history' = [history EXCEPT !.request_run = 0]
  /\ UNCHANGED <<frames, Env>>

\* handle_generate, lines 574-828, statement by statement. Lines 576-595: the input and
\* API-key checks
GenerateCheckInputs ==
  /\ pc.generate = "idle"
  /\ LET deck_ready == DeckReady(state)
         briefing_ready == BriefingReady(state)
     IN /\ frames' = [frames EXCEPT !.deck_ready = deck_ready, !.briefing_ready = briefing_ready]
        /\ IF ~deck_ready \/ ~briefing_ready THEN Generate("l589")
           ELSE IF ~args.api_key THEN Generate("l593")
           ELSE history.runs < MaxRuns /\ Generate("l597")
  /\ UNCHANGED <<state, history, Env>>

GenerateRejectInputs ==
  /\ pc.generate = "l589"
  /\ state' = Message(state, "!Please provide input for both the deck and briefing documents.")
  /\ frames' = NoLocals
  /\ Generate("idle")
  /\ UNCHANGED <<history, Env>>

GenerateRejectKey ==
  /\ pc.generate = "l593"
  /\ state' = Message(state, "-WRITER_API_KEY is not set. Cannot proceed with AI generation.")
  /\ frames' = NoLocals
  /\ Generate("idle")
  /\ UNCHANGED <<history, Env>>

GenerateSetGenerating ==
  /\ pc.generate = "l597"
  /\ state' = [state EXCEPT !.is_generating = TRUE]
  /\ history' = [history EXCEPT !.runs = @ + 1, !.stop_at = "none"]
  /\ Generate("l598")
  /\ UNCHANGED <<frames, Env>>

GenerateClearStop ==
  /\ pc.generate = "l598"
  /\ state' = [state EXCEPT !.stop_requested = FALSE]
  /\ history' = [history EXCEPT !.flag_run = 0]
  /\ Generate("l599")
  /\ UNCHANGED <<frames, Env>>

GenerateStart ==
  /\ pc.generate = "l599"
  /\ state' = start_generation(state)
  /\ Generate("l611")
  /\ UNCHANGED <<frames, history, Env>>

\* lines 611-612
GenerateStep0 ==
  /\ pc.generate = "l611"
  /\ state' = Message([state EXCEPT !.processing_step = "text_extraction"],
                      "%Getting text content...")
  /\ Generate("l613")
  /\ UNCHANGED <<frames, history, Env>>

\* line 613, _get_input_text(state, "deck"), lines 390-403
GenerateDeckText ==
  /\ pc.generate = "l613"
  /\ IF state.deck_input_method = UploadFile /\ NonEmpty(state.deck_file.path)
        /\ state.deck_file.text_content = None
     THEN LET extracting == Message(state, "%Extracting text from presentation deck...")
          IN \/ /\ state' = extracting
                /\ Raise(RuntimeError)
             \/ \E text \in DeckTexts :
                   /\ state' = [extracting EXCEPT !.deck_file.text_content = text]
                   /\ frames' = [frames EXCEPT !.deck_text = text]
                   /\ Generate("l614")
     ELSE /\ frames' = [frames EXCEPT !.deck_text =
                          IF state.deck_input_method = UploadFile /\ ~NonEmpty(state.deck_file.path)
                          THEN "" ELSE OrEmpty(state.deck_file.text_content)]
          /\ Generate("l614")
          /\ UNCHANGED state
  /\ UNCHANGED <<history, Env>>

ExtractingBriefing(i, n) ==
  "%Extracting text from briefing document " \o IntToStr(i) \o "/" \o IntToStr(n) \o "..."

\* line 614, _get_input_text(state, "briefing"), lines 404-418: texts[i] is what the
\* extraction returns for the i-th file, "failed" when it raises
GenerateBriefingText ==
  /\ pc.generate = "l614"
  /\ IF state.briefing_input_method = UploadFile
     THEN LET files == state.briefing_files
              n == Len(files)
              todo == {i \in 1..n : files[i].text_content = None}
          IN \E texts \in [1..n -> BriefingTexts \cup {"failed"}] :
                /\ \A i \in (1..n) \ todo : texts[i] = files[i].text_content
                /\ LET failing == {i \in todo : texts[i] = "failed"}
                       done == IF failing = {} THEN todo ELSE {i \in todo : i < Min(failing)}
                       read == [i \in 1..n |-> IF i \in done
                                                THEN [files[i] EXCEPT !.text_content = texts[i]]
                                                ELSE files[i]]
                       reached == IF failing = {} THEN todo ELSE done \cup {Min(failing)}
                       told == IF reached = {} THEN state
                               ELSE Message(state, ExtractingBriefing(Max(reached), n))
                   IN /\ state' = [told EXCEPT !.briefing_files = read]
                      /\ IF failing # {} THEN Raise(RuntimeError)
                         ELSE /\ frames' = [frames EXCEPT !.combined_briefing_text =
                                              Join([i \in 1..n |-> read[i].text_content],
                                                   "\n\n---\n\n")]
                              /\ Generate("l616")
     ELSE /\ frames' = [frames EXCEPT !.combined_briefing_text = state.briefing_manual_text]
          /\ Generate("l616")
          /\ UNCHANGED state
  /\ UNCHANGED <<history, Env>>

\* lines 616-630: the two emptiness checks, then the language detection, which reports a
\* language other than English in the message
GenerateCheckTexts ==
  /\ pc.generate = "l616"
  /\ IF frames.deck_text = "" \/ frames.combined_briefing_text = ""
     THEN Raise(ValueError) /\ UNCHANGED state
     ELSE /\ \/ UNCHANGED state
             \/ state' = Message(state, "%Detected Spanish content. Generating notes in Spanish...")
          /\ Generate("l632")
          /\ UNCHANGED frames
  /\ UNCHANGED <<history, Env>>

\* if state["stop_requested"]: raise GenerationStoppedError(), at lines 632, 657 and 676
Checkpoint(label, next) ==
  /\ pc.generate = label
  /\ IF state.stop_requested THEN Raise(GenerationStoppedError)
     ELSE Generate(next) /\ UNCHANGED frames
  /\ UNCHANGED <<state, history, Env>>

GenerateCheckpoint1 == Checkpoint("l632", "l635")

\* lines 635-636
GenerateStep1 ==
  /\ pc.generate = "l635"
  /\ state' = Message([state EXCEPT !.processing_step = "step1"],
                      "%Generating presentation outline...")
  /\ Generate("l652")
  /\ UNCHANGED <<frames, history, Env>>

\* lines 639-656: the AI call returns the outline or raises
GenerateOutline ==
  /\ pc.generate = "l652"
  /\ \/ /\ state' = [state EXCEPT !.results = DictSet(@, "outline", "answer 1")]
        /\ Generate("l657")
        /\ UNCHANGED frames
     \/ Raise(APIError) /\ UNCHANGED state
  /\ UNCHANGED <<history, Env>>

GenerateCheckpoint2 == Checkpoint("l657", "l660")

\* lines 660-662 and 672-674
GenerateStep2 ==
  /\ pc.generate = "l660"
  /\ LET s == [state EXCEPT !.processing_step = "step2"]
     IN IF s.deck_input_method = UploadFile /\ NonEmpty(s.deck_file.path)
        THEN state' = Message(s, "%Analyzing presentation visuals...") /\ Generate("l669")
        ELSE /\ state' = [s EXCEPT !.results = DictSet(@, "visuals",
                             "[Visual analysis skipped: Text input provided for deck]")]
             /\ Generate("l676")
  /\ UNCHANGED <<frames, history, Env>>

\* lines 663-671: _analyze_visuals returns its analysis or a text that tells its error
GenerateVisuals ==
  /\ pc.generate = "l669"
  /\ \E visuals \in {"visual analysis", "[Error during visual analysis: RuntimeError]"} :
        state' = [state EXCEPT !.results = DictSet(@, "visuals", visuals)]
  /\ Generate("l676")
  /\ UNCHANGED <<frames, history, Env>>

GenerateCheckpoint3 == Checkpoint("l676", "l679")

\* line 679
GenerateStep3 ==
  /\ pc.generate = "l679"
  /\ state' = [state EXCEPT !.processing_step = "step3"]
  /\ Generate("l680")
  /\ UNCHANGED <<frames, history, Env>>

\* line 680: the name has_briefing is bound nowhere, neither in handle_generate nor in the
\* module, so formatting the log message raises NameError
GenerateLogStep3 ==
  /\ pc.generate = "l680"
  /\ Raise(NameError)
  /\ UNCHANGED <<state, history, Env>>

\* except GenerationStoppedError, lines 816-819
GenerateStopped ==
  /\ pc.generate = "l817"
  /\ state' = on_generation_stopped(state)
  /\ Generate("l826")
  /\ UNCHANGED <<frames, history, Env>>

\* except Exception, lines 820-824
GenerateFailed ==
  /\ pc.generate = "l821"
  /\ state' = on_error(state, frames.raised)
  /\ Generate("l826")
  /\ UNCHANGED <<frames, history, Env>>

\* finally, lines 825-828
GenerateClearGenerating ==
  /\ pc.generate = "l826"
  /\ state' = [state EXCEPT !.is_generating = FALSE]
  /\ Generate("l827")
  /\ UNCHANGED <<frames, history, Env>>

GenerateClearStopAtEnd ==
  /\ pc.generate = "l827"
  /\ state' = [state EXCEPT !.stop_requested = FALSE]
  /\ history' = [history EXCEPT !.flag_run = 0]
  /\ Generate("l828")
  /\ UNCHANGED <<frames, Env>>

GenerateReturn ==
  /\ pc.generate = "l828"
  /\ state' = update_generate_button_state(state)
  /\ frames' = NoLocals
  /\ history' = [history EXCEPT !.stop_at = "none"]
  /\ Generate("idle")
  /\ UNCHANGED Env

NextUI ==
  \/ DeckUpload
  \/ BriefingUpload
  \/ DeckMethodChange
  \/ BriefingMethodChange
  \/ SaveDeckText
  \/ SaveBriefingText
  \/ Download
  \/ StopCheck
  \/ StopSetFlag
  \/ StopMessage
  \/ StopNotRunning
  \/ GenerateCheckInputs
  \/ GenerateRejectInputs
  \/ GenerateRejectKey
  \/ GenerateSetGenerating
  \/ GenerateClearStop
  \/ GenerateStart
  \/ GenerateStep0
  \/ GenerateDeckText
  \/ GenerateBriefingText
  \/ GenerateCheckTexts
  \/ GenerateCheckpoint1
  \/ GenerateStep1
  \/ GenerateOutline
  \/ GenerateCheckpoint2
  \/ GenerateStep2
  \/ GenerateVisuals
  \/ GenerateCheckpoint3
  \/ GenerateStep3
  \/ GenerateLogStep3
  \/ GenerateStopped
  \/ GenerateFailed
  \/ GenerateClearGenerating
  \/ GenerateClearStopAtEnd
  \/ GenerateReturn

SpecUI == InitUI /\ [][NextUI]_vars

(***************************************************************************)
(* Properties of identify_slide_type.                                      *)
(***************************************************************************)
\* the number of matching patterns of every type that has patterns, in table order
RECURSIVE MatchCounts(_, _)
MatchCounts(k, text) ==
  IF k > Len(type_indicators) THEN <<>>
  ELSE <<[type |-> type_indicators[k].type,
          count |-> Cardinality({j \in 1..Len(type_indicators[k].patterns) :
                                   Search(type_indicators[k].patterns[j], text, IgnoreCase)})]>>
         \o MatchCounts(k + 1, text)

IdentifyCounts == MatchCounts(1, CombinedText(args.slide_title, args.slide_content))

CountOf(counts, ty) ==
  IF \E k \in 1..Len(counts) : counts[k].type = ty
  THEN counts[CHOOSE k \in 1..Len(counts) : counts[k].type = ty].count
  ELSE 0

\* the types with at least one matching pattern whose count no other type exceeds
TopTypes(counts) ==
  {counts[k].type : k \in {k \in 1..Len(counts) :
      counts[k].count > 0 /\ \A j \in 1..Len(counts) : counts[j].count <= counts[k].count}}

\* C1: with slide_number = 1 identify_slide_type returns title, for every title and content
C1_SlideOneIsTitle ==
  (Returned("identify_slide_type") /\ args.slide_number = 1) => result = TITLE

\* slide 1 was classified although the patterns of its text point to another type only
C1_Witness ==
  /\ Returned("identify_slide_type") /\ args.slide_number = 1 /\ result = TITLE
  /\ LET counts == IdentifyCounts
     IN CountOf(counts, TITLE) = 0 /\ CountOf(counts, AGENDA) > 0

\* C2: for slide_number # 1 the result is content exactly when no pattern of any type
\* matches the combined text; content itself has no patterns
C2_ContentIffNoMatch ==
  (Returned("identify_slide_type") /\ args.slide_number # 1) =>
     LET counts == IdentifyCounts
     IN /\ (result = CONTENT) <=> (\A k \in 1..Len(counts) : counts[k].count = 0)
        /\ \A k \in 1..Len(counts) : counts[k].type # CONTENT

\* a later slide with a non-empty title and content that match nothing came back as content
C2_Witness ==
  /\ Returned("identify_slide_type") /\ args.slide_number # 1 /\ result = CONTENT
  /\ args.slide_title # "" /\ args.slide_content # ""

\* C3: for slide_number # 1, when some type has a matching pattern, the returned type has
\* at least one matching pattern and at least as many as every other type
C3_ReturnsHighestCount ==
  (Returned("identify_slide_type") /\ args.slide_number # 1) =>
     LET counts == IdentifyCounts
     IN (\E k \in 1..Len(counts) : counts[k].count > 0) =>
          /\ CountOf(counts, result) > 0
          /\ \A k \in 1..Len(counts) : counts[k].count <= CountOf(counts, result)

\* the returned type beat, with more matches, a type that comes before it in the table
C3_Witness ==
  /\ Returned("identify_slide_type") /\ args.slide_number # 1
  /\ LET counts == IdentifyCounts
     IN \E k \in 1..Len(counts) : \E j \in 1..(k - 1) :
          /\ counts[k].type = result
          /\ counts[j].count > 0 /\ counts[j].count < counts[k].count

ClaimedOrder == <<TITLE, INTRO, AGENDA, DATA_VISUAL, COMPARISON, TRANSITION, SUMMARY,
                  CONCLUSION, CALL_TO_ACTION, APPENDIX, QA>>

FirstInClaimedOrder(types) ==
  ClaimedOrder[Min({k \in 1..Len(ClaimedOrder) : ClaimedOrder[k] \in types})]

\* C4: for slide_number # 1, among the types tied for the highest match count the one
\* returned is the earliest in the order title, introduction, agenda, data_visual,
\* comparison, transition, summary, conclusion, call_to_action, appendix, questions
C4_TieGoesToFirstDeclared ==
  (Returned("identify_slide_type") /\ args.slide_number # 1) =>
     LET top == TopTypes(IdentifyCounts)
     IN top # {} => result = FirstInClaimedOrder(top)

\* two or more types tied for the highest count and the earliest of them came back
C4_Witness ==
  /\ Returned("identify_slide_type") /\ args.slide_number # 1
  /\ LET top == TopTypes(IdentifyCounts)
     IN Cardinality(top) >= 2 /\ result = FirstInClaimedOrder(top) /\ result # TITLE

(***************************************************************************)
(* Properties of extract_data_insights.                                    *)
(***************************************************************************)
SalesLine == "Sales increased 15% due to strong demand"

NoDataLine == "No relevant data here"

InSeq(x, seq) == \E k \in 1..Len(seq) : seq[k] = x

InNoCategory(line, insights) ==
  /\ ~InSeq(line, insights.trends) /\ ~InSeq(line, insights.comparisons)
  /\ ~InSeq(line, insights.outliers) /\ ~InSeq(line, insights.key_findings)

SalesExampleReturned ==
  /\ Returned("extract_data_insights")
  /\ args.visual_description = SalesLine \o "\n" \o NoDataLine

\* C5 as stated: on the two-line example the first line is placed in trends and in
\* key_findings and the second line in no category
C5_AsStated ==
  SalesExampleReturned =>
     /\ InSeq(SalesLine, result.trends) /\ InSeq(SalesLine, result.key_findings)
     /\ InNoCategory(NoDataLine, result)

\* C5 amended: on the two-line example the first line is placed in trends and in no other
\* category (its only keyword, "increase", stands before the number 15, so the
\* numeric pattern does not match it) and the second line in no category
C5_SalesLineInTrendsOnly ==
  SalesExampleReturned =>
     /\ result.trends = <<SalesLine>>
     /\ result.comparisons = <<>> /\ result.outliers = <<>> /\ result.key_findings = <<>>
     /\ InNoCategory(NoDataLine, result)

\* the two-line example was analysed
C5_Witness == SalesExampleReturned /\ InSeq(SalesLine, result.trends)

(***************************************************************************)
(* Properties of get_adaptive_structure.                                   *)
(***************************************************************************)
Bespoke == {TITLE, DATA_VISUAL, COMPARISON, CONCLUSION}

Levels == {"Brief", "Standard", "Detailed"}

TableOf(slide_type) == IF slide_type \in Bespoke THEN structures[slide_type] ELSE default_structure

\* C6 as stated: the verbosity is looked up in the table selected for the slide type, and an
\* unrecognized verbosity gives the Standard entry of that same table
C6_AsStated ==
  Returned("get_adaptive_structure") =>
     result = IF args.verbosity \in Levels THEN TableOf(args.slide_type)[args.verbosity]
              ELSE TableOf(args.slide_type)["Standard"]

DefaultStandardTemplates ==
  <<"[Main message]", "[Supporting evidence/example]", "[What this means for audience]">>

\* C7: for a slide type without a bespoke table the result is the generic default entry of
\* the verbosity, and the default Standard entry for an unrecognized verbosity; the call
\* always returns a structure
C7_DefaultTableForOtherTypes ==
  Returned("get_adaptive_structure") =>
     /\ DOMAIN result = {"bullets", "focus", "template"}
     /\ args.slide_type \notin Bespoke =>
          /\ result = default_structure[IF args.verbosity \in Levels THEN args.verbosity
                                        ELSE "Standard"]
          /\ args.verbosity \notin Levels =>
               result.bullets = 3 /\ result.template = DefaultStandardTemplates

\* get_adaptive_structure(content, "Unknown") returned
C7_Witness ==
  /\ Returned("get_adaptive_structure")
  /\ args.slide_type = CONTENT /\ args.verbosity = "Unknown"
  /\ result.template = DefaultStandardTemplates

(***************************************************************************)
(* Properties of generate_storytelling_transition.                         *)
(***************************************************************************)
ConfiguredPairs ==
  {<<INTRO, CONTENT>>, <<CONTENT, DATA_VISUAL>>, <<DATA_VISUAL, CONTENT>>,
   <<CONTENT, COMPARISON>>, <<COMPARISON, CONTENT>>, <<CONTENT, CONCLUSION>>,
   <<CONCLUSION, CALL_TO_ACTION>>, <<CONTENT, CONTENT>>, <<DATA_VISUAL, DATA_VISUAL>>}

GenericTransition == "Moving to our next topic..."

\* C8: each of the nine configured ordered pairs gets its configured phrase, (introduction,
\* content) gets "Now let's dive into the details...", every other ordered pair gets
\* "Moving to our next topic..."
C8_TransitionByOrderedPair ==
  Returned("generate_storytelling_transition") =>
     LET pair == <<args.from_type, args.to_type>>
     IN /\ Cardinality(ConfiguredPairs) = 9
        /\ pair \in ConfiguredPairs => result = transitions[pair] /\ result # GenericTransition
        /\ pair = <<INTRO, CONTENT>> => result = "Now let's dive into the details..."
        /\ pair \notin ConfiguredPairs => result = GenericTransition

\* the reverse of a configured pair, itself not configured, got the generic phrase
C8_Witness ==
  /\ Returned("generate_storytelling_transition")
  /\ args.from_type = CONTENT /\ args.to_type = INTRO
  /\ result = GenericTransition

(***************************************************************************)
(* Properties of analyze_presentation_intelligence.                        *)
(***************************************************************************)
\* the slide numbers of the "Slide <N>:" markers of a text: the word Slide in any case,
\* whitespace, digits, a colon
MarkerNumbers(text) ==
  {StrToInt(SubSeq(text, m[1] + 1, m[2])) :
     m \in {m \in (0..Len(text)) \X (0..Len(text)) :
              /\ \E i \in 0..m[1] : m[1] \in Ends(Cat(<<L("Slide"), S1>>), text, i, IgnoreCaseDotAll)
              /\ m[2] \in Ends(D1, text, m[1], IgnoreCaseDotAll)
              /\ LitAt(":", text, m[2], FALSE)}}

\* C9 as stated: the keys of the returned mapping are exactly the slide numbers of the
\* "Slide <N>:" markers of the outline
C9_AsStated ==
  Returned("analyze_presentation_intelligence") => DOMAIN result = MarkerNumbers(args.outline)

\* C10: a record's insights are extract_data_insights of the slide's visual block exactly
\* when the slide was classified data_visual and the block is non-empty, and are empty
\* in every other case
C10_InsightsOnlyForDataVisual ==
  Returned("analyze_presentation_intelligence") =>
     \A n \in DOMAIN result :
        LET visual_block == VisualContent(n, args.visuals)
        IN IF result[n].type = DATA_VISUAL /\ visual_block # ""
           THEN result[n].insights = extract_data_insights(visual_block)
           ELSE result[n].insights = EmptyDict

\* one record is data_visual with a visual block and a trend extracted from it, another
\* has a visual block but another type and so no insights
C10_Witness ==
  /\ Returned("analyze_presentation_intelligence")
  /\ \E n, m \in DOMAIN result :
        /\ result[n].type = DATA_VISUAL /\ result[n].has_visual
        /\ result[n].insights # EmptyDict /\ result[n].insights.trends # <<>>
        /\ result[m].type # DATA_VISUAL /\ result[m].has_visual
        /\ result[m].insights = EmptyDict

\* the offsets at which a "Slide <N>:" marker of slide n starts, and at which any marker starts
MarkerStartsFor(n, text) ==
  {i \in 0..Len(text) :
     Ends(Cat(<<L("Slide"), S1, L(IntToStr(n)), L(":")>>), text, i, IgnoreCaseDotAll) # {}}

AnyMarkerStarts(text) ==
  {i \in 0..Len(text) : Ends(Cat(<<L("Slide"), S1, D1, L(":")>>), text, i, IgnoreCaseDotAll) # {}}

\* the block of slide n: from its first marker up to the next marker after it, or up to
\* offset last when no marker follows
BlockUpTo(n, text, last) ==
  LET start == Min(MarkerStartsFor(n, text))
      marker_end == Min(Ends(Cat(<<L("Slide"), S1, L(IntToStr(n)), L(":")>>), text, start,
                             IgnoreCaseDotAll))
      following == {j \in AnyMarkerStarts(text) : j >= marker_end}
  IN SubSeq(text, start + 1, IF following # {} THEN Min(following) ELSE last)

EndsWithNewline(text) == text # "" /\ Ch(text, Len(text)) = "\n"

\* the end of the text, not counting a newline that ends it
BeforeFinalNewline(text) == IF EndsWithNewline(text) THEN Len(text) - 1 ELSE Len(text)

\* the visual text of every record is block(n), it is what the classifier received as
\* content, and has_visual tells whether visuals holds a marker of the slide
VisualTextIs(block(_)) ==
  Returned("analyze_presentation_intelligence") =>
     \A n \in DOMAIN result :
        LET present == MarkerStartsFor(n, args.visuals) # {}
            text == IF present THEN block(n) ELSE ""
        IN /\ VisualContent(n, args.visuals) = text
           /\ result[n].type = identify_slide_type(result[n].title, text, n)
           /\ result[n].has_visual = present

\* C11 as stated: the visual text of slide N runs from the first "Slide N:" marker of
\* visuals up to the next marker or the end of the text
C11_AsStated ==
  LET block(n) == BlockUpTo(n, args.visuals, Len(args.visuals)) IN VisualTextIs(block)

\* C11 amended: the visual text of slide N runs from the first "Slide N:" marker of visuals
\* up to the next marker or the end of the text, leaving out a newline that ends the text;
\* it is the classifier's content; without a marker it is "" and has_visual is false,
\* otherwise has_visual is true
C11_VisualBlockOfSlide ==
  LET block(n) == BlockUpTo(n, args.visuals, BeforeFinalNewline(args.visuals))
  IN VisualTextIs(block)

\* one record's block stops at the next marker, another slide has no marker in visuals
C11_Witness ==
  /\ Returned("analyze_presentation_intelligence")
  /\ \E n, m \in DOMAIN result :
        /\ result[n].has_visual
        /\ \E j \in AnyMarkerStarts(args.visuals) : j > Min(MarkerStartsFor(n, args.visuals))
        /\ ~result[m].has_visual /\ VisualContent(m, args.visuals) = ""

\* C12 as stated: an outline without a "Slide <integer>:" marker gives the empty mapping, and
\* every "Slide <integer>:" marker of the outline gets its record whatever malformed
\* markers stand next to it
C12_AsStated ==
  Returned("analyze_presentation_intelligence") =>
     /\ MarkerNumbers(args.outline) = {} => result = EmptyDict
     /\ \A n \in MarkerNumbers(args.outline) : n \in DOMAIN result

(***************************************************************************)
(* Claims about format_intelligent_notes.  The returned text is read back  *)
(* as its lines; the header takes as many lines as the title has.          *)
(***************************************************************************)
NoteLines == SplitLines(result)

HeaderText == "Slide " \o IntToStr(args.slide_num) \o ": " \o args.slide_intel.title

HeaderLineCount == Len(SplitLines(HeaderText))

StartsWith(s, prefix) == Len(s) >= Len(prefix) /\ SubSeq(s, 1, Len(prefix)) = prefix

TransitionPrefix == Bullet \o " (Transition) "

TransitionLineNumbers ==
  LET lines == NoteLines
  IN {k \in 1..Len(lines) : StartsWith(lines[k], TransitionPrefix)}

TransitionDue ==
  args.prev_slide_type # None /\ args.prev_slide_type # args.slide_intel.type

ChosenTemplate == get_adaptive_structure(args.slide_intel.type, args.verbosity).template

TransitionCount == IF TransitionDue THEN 1 ELSE 0

\* the lines from position first on, at most count of them
LinesFrom(first, count) ==
  LET lines == NoteLines
  IN SubSeq(lines, first, Min({Len(lines), first + count - 1}))

\* the template strings of the structure as note lines
BulletedTemplates ==
  LET template == ChosenTemplate
  IN [k \in 1..Len(template) |-> Bullet \o " " \o template[k]]

\* C13: a transition line, carrying generate_storytelling_transition(previous
\* type, current type), is emitted exactly once when a previous type is given
\* and differs from the slide's type, right after the header and ahead of the
\* template lines; otherwise no transition line is emitted.
C13_TransitionLineWhenTypesDiffer ==
  Returned("format_intelligent_notes") =>
     IF TransitionDue
     THEN /\ TransitionLineNumbers = {HeaderLineCount + 1}
          /\ NoteLines[HeaderLineCount + 1] =
               TransitionPrefix \o generate_storytelling_transition(args.prev_slide_type,
                                                                    args.slide_intel.type)
          /\ LinesFrom(HeaderLineCount + 2, Len(ChosenTemplate)) = BulletedTemplates
     ELSE TransitionLineNumbers = {}

C13_Witness ==
  /\ Returned("format_intelligent_notes")
  /\ TransitionDue
  /\ TransitionLineNumbers # {}
  /\ generate_storytelling_transition(args.prev_slide_type, args.slide_intel.type)
       # GenericTransition

C13_WitnessEqualTypes ==
  /\ Returned("format_intelligent_notes")
  /\ args.prev_slide_type = args.slide_intel.type
  /\ TransitionLineNumbers = {}

\* C14: after the template lines come at most a "Key trend" line with the first
\* trends entry and then a "Notable" line with the first outliers entry, each
\* only when its category is non-empty; comparisons and key_findings give no
\* line, and empty insights give no line.
ExpectedInsightLines ==
  LET insights == args.slide_intel.insights
      has(key) == key \in DOMAIN insights /\ insights[key] # <<>>
  IN (IF has("trends") THEN <<Bullet \o " Key trend: " \o insights["trends"][1]>> ELSE <<>>)
     \o (IF has("outliers") THEN <<Bullet \o " Notable: " \o insights["outliers"][1]>> ELSE <<>>)

LinesAfterTemplates ==
  LinesFrom(HeaderLineCount + TransitionCount + Len(ChosenTemplate) + 1, Len(NoteLines))

C14_InsightLinesAfterTemplates ==
  Returned("format_intelligent_notes") => LinesAfterTemplates = ExpectedInsightLines

C14_Witness ==
  /\ Returned("format_intelligent_notes")
  /\ args.slide_intel.insights # EmptyDict
  /\ Len(args.slide_intel.insights["trends"]) > 1
  /\ args.slide_intel.insights["outliers"] # <<>>
  /\ args.slide_intel.insights["key_findings"] # <<>>
  /\ Len(LinesAfterTemplates) = 2

C14_WitnessNoLine ==
  /\ Returned("format_intelligent_notes")
  /\ args.slide_intel.insights # EmptyDict
  /\ args.slide_intel.insights["comparisons"] # <<>>
  /\ LinesAfterTemplates = <<>>

\* C15: the text has exactly one line per template string of
\* get_adaptive_structure(slide type, verbosity), in the table's order, each the
\* bullet followed by the template string as it stands in the table.
TemplateLinesOfResult ==
  LinesFrom(HeaderLineCount + TransitionCount + 1, Len(ChosenTemplate))

C15_OneLinePerTemplate ==
  Returned("format_intelligent_notes") =>
     /\ Len(TemplateLinesOfResult) = Len(ChosenTemplate)
     /\ TemplateLinesOfResult = BulletedTemplates
     /\ Len(NoteLines) = HeaderLineCount + TransitionCount + Len(ChosenTemplate)
                           + Len(ExpectedInsightLines)

C15_Witness ==
  /\ Returned("format_intelligent_notes")
  /\ Len(ChosenTemplate) >= 3
  /\ ChosenTemplate[1] # ChosenTemplate[Len(ChosenTemplate)]
  /\ \E i \in 1..Len(ChosenTemplate[1]) : SubSeq(ChosenTemplate[1], i, i) = "["
  /\ Len(TemplateLinesOfResult) = Len(ChosenTemplate)

\* C16: the first line of the returned text is the header "Slide <N>: <title>"
\* for every record, verbosity and previous type.
C16_AsStated ==
  Returned("format_intelligent_notes") => NoteLines[1] = HeaderText

\* The round trip of the two-slide example: the records of the analysis are
\* formatted, slide 1 without a previous type and slide 2 with slide 1's type.
RoundTripOutline == "Slide 1: Welcome\nSlide 2: Q1 Sales Data"

RoundTripCase ==
  /\ Returned("analyze_presentation_intelligence")
  /\ args.outline = RoundTripOutline
  /\ MarkerStartsFor(1, args.visuals) # {}
  /\ MarkerStartsFor(2, args.visuals) # {}

FirstBlock(verbosity) == SplitLines(format_intelligent_notes(1, result[1], verbosity, None))

SecondBlock(verbosity) ==
  SplitLines(format_intelligent_notes(2, result[2], verbosity, result[1].type))

\* C17 as stated: the first line of the note block is "Slide 1: Welcome" and
\* the block of the second slide begins with a transition line.
C17_AsStated ==
  RoundTripCase =>
     \A verbosity \in Verbosities :
        /\ FirstBlock(verbosity)[1] = "Slide 1: Welcome"
        /\ StartsWith(SecondBlock(verbosity)[1], TransitionPrefix)

\* C17: in the round trip of the two-slide example, slide 1 is title and
\* slide 2 is data_visual, the first line of the note block is
\* "Slide 1: Welcome", and the block of the second slide has the transition
\* line from title to data_visual right after its header line
\* "Slide 2: Q1 Sales Data".
C17_RoundTripTransitionAfterHeader ==
  RoundTripCase =>
     /\ DOMAIN result = {1, 2}
     /\ result[1].type = TITLE
     /\ result[2].type = DATA_VISUAL
     /\ \A verbosity \in Verbosities :
          /\ FirstBlock(verbosity)[1] = "Slide 1: Welcome"
          /\ ~ \E k \in 1..Len(FirstBlock(verbosity)) :
                 StartsWith(FirstBlock(verbosity)[k], TransitionPrefix)
          /\ SecondBlock(verbosity)[1] = "Slide 2: Q1 Sales Data"
          /\ SecondBlock(verbosity)[2] =
               TransitionPrefix \o generate_storytelling_transition(TITLE, DATA_VISUAL)

C17_Witness ==
  /\ RoundTripCase
  /\ result[2].insights # EmptyDict
  /\ result[2].insights["trends"] # <<>>
  /\ Len(SecondBlock("Brief")) = 6

\* C18: for every slide type and every verbosity the returned structure has as
\* many template strings as its bullet count says, and
\* get_adaptive_structure(data_visual, "Brief") has exactly 2 templates.
C18_TemplatesMatchBulletCount ==
  Returned("get_adaptive_structure") =>
     /\ Len(result.template) = result.bullets
     /\ (args.slide_type = DATA_VISUAL /\ args.verbosity = "Brief") =>
           Len(result.template) = 2

C18_Witness ==
  /\ Returned("get_adaptive_structure")
  /\ args.slide_type = DATA_VISUAL /\ args.verbosity = "Brief"
  /\ result.bullets = 2
  /\ result.template = <<"[Main data point] shows [trend/finding]",
                         "This means [business impact]">>

C18_WitnessUnrecognized ==
  /\ Returned("get_adaptive_structure")
  /\ args.slide_type \in Bespoke /\ args.verbosity \notin Levels
  /\ result.bullets = 3

\* C19: for the title "Agenda for Today", empty content and slide_number 2
\* identify_slide_type returns agenda; agenda has a matching pattern and every
\* other type has a lower match count.
AgendaExample ==
  /\ Returned("identify_slide_type")
  /\ args.slide_title = "Agenda for Today"
  /\ args.slide_content = ""
  /\ args.slide_number = 2

C19_AgendaForToday ==
  AgendaExample =>
     /\ result = AGENDA
     /\ CountOf(IdentifyCounts, AGENDA) >= 1
     /\ \A ty \in SlideType \ {AGENDA} :
          CountOf(IdentifyCounts, ty) < CountOf(IdentifyCounts, AGENDA)

C19_Witness == AgendaExample /\ result = AGENDA /\ TopTypes(IdentifyCounts) = {AGENDA}

(***************************************************************************)
(* Interleaved calls give the results of the calls run alone.              *)
(***************************************************************************)
\* what the call of caller p returns when it runs alone
Alone(p) ==
  IF op[p] = "analyze_presentation_intelligence"
  THEN analyze_presentation_intelligence(args[p].outline, args[p].visuals)
  ELSE format_intelligent_notes(args[p].slide_num, args[p].slide_intel, args[p].verbosity,
                                args[p].prev_slide_type)

\* the locals of caller p's running call are what the call alone has built so far
OwnDataAsAlone(p) ==
  LET frame == frames[FrameOf(p)]
  IN /\ (op[p] = "analyze_presentation_intelligence" /\ pc[p] = "loop") =>
          /\ frame.slides = FindAllSlides(args[p].outline, 0)
          /\ frame.i <= Len(frame.slides)
          /\ frame.intelligence =
               AnalyzeLoop(SubSeq(frame.slides, 1, frame.i), 1, args[p].visuals, EmptyDict)
     /\ (op[p] = "format_intelligent_notes" /\ pc[p] \in {"transition", "templates", "join"}) =>
          /\ frame.notes # <<>>
          /\ StartsWith(Alone(p), Join(frame.notes, "\n"))
          /\ pc[p] = "join" => Join(frame.notes, "\n") = Alone(p)

\* C20: in every interleaving of two calls, each call that has returned has
\* returned what it returns when run alone on its own inputs, and the locals
\* of each running call are those the call alone has built so far.
C20_InterleavedCallsAsAlone ==
  \A p \in Procs :
     /\ pc[p] = "done" => result[p] = Alone(p)
     /\ OwnDataAsAlone(p)

\* both calls are under way on different inputs: one is between two slides of
\* its loop, the other has written its header and transition line
C20_Witness ==
  \E p \in Procs, q \in Procs :
     /\ p # q
     /\ op[p] = "analyze_presentation_intelligence" /\ pc[p] = "loop"
     /\ frames[FrameOf(p)].i = 1 /\ Len(frames[FrameOf(p)].slides) = 2
     /\ op[q] = "format_intelligent_notes" /\ pc[q] = "templates"
     /\ Len(frames[FrameOf(q)].notes) = 2

\* one call has returned its two records while a call on other inputs is
\* between two slides of its loop
C20_WitnessReturned ==
  \E p \in Procs, q \in Procs :
     /\ p # q
     /\ op[p] = "analyze_presentation_intelligence" /\ pc[p] = "done"
     /\ DOMAIN result[p] = {1, 2}
     /\ op[q] = "analyze_presentation_intelligence" /\ pc[q] = "loop"
     /\ args[q] # args[p]
     /\ frames[FrameOf(q)].i = 1 /\ Len(frames[FrameOf(q)].slides) = 2

(***************************************************************************)
(* Further properties of extract_data_insights: which lines reach which    *)
(* sequence, how often and in which order.                                 *)
(***************************************************************************)
InputLines == SplitLines(args.visual_description)

StatKeywords == {"growth", "increase", "decrease", "market", "share", "rate"}

\* one of the keywords stands at position j of the line, in any letter case
KeywordAt(line, j) ==
  \E w \in StatKeywords :
     j + Len(w) - 1 <= Len(line) /\ ToLower(SubSeq(line, j, j + Len(w) - 1)) = w

\* a number starts at position i of the line: a digit that does not continue a word
NumberAt(line, i) ==
  Ch(line, i) \in Digit /\ (i = 1 \/ Ch(line, i - 1) \notin WordChar)

\* the line holds a number and, somewhere after the number's first digit, a keyword
NumberThenKeyword(line) ==
  \E i \in 1..Len(line) : NumberAt(line, i) /\ \E j \in (i + 1)..Len(line) : KeywordAt(line, j)

HasKeyword(line) == \E j \in 1..Len(line) : KeywordAt(line, j)

HasNumber(line) == \E i \in 1..Len(line) : NumberAt(line, i)

\* the lines of seq that satisfy Test, trimmed, in the order of seq
TrimmedWhere(seq, Test(_)) ==
  LET kept == SelectSeq(seq, Test) IN [k \in 1..Len(kept) |-> Strip(kept[k])]

\* C21: extract_data_insights appends a line to key_findings exactly when the line holds
\* a number (digits that do not continue a word, with or without "%") and one of the
\* keywords growth, increase, decrease, market, share, rate somewhere after the number's
\* first digit; a line with its keywords only before the number, or without a number, is
\* not appended
C21_KeyFindingsNumberThenKeyword ==
  Returned("extract_data_insights") =>
     result.key_findings = TrimmedWhere(InputLines, NumberThenKeyword)

\* a call returned whose input has a line that is appended to key_findings and a line
\* that has a number and a keyword, the keyword before the number only
C21_Witness ==
  /\ Returned("extract_data_insights")
  /\ Len(result.key_findings) = 1
  /\ \E k \in 1..Len(InputLines) : NumberThenKeyword(InputLines[k])
  /\ \E k \in 1..Len(InputLines) :
        HasKeyword(InputLines[k]) /\ HasNumber(InputLines[k]) /\ ~NumberThenKeyword(InputLines[k])

\* a call returned whose input has a line with keywords and no number of its own (its
\* digit continues the word "Q3") and a line with neither: nothing is appended
C21_WitnessNoNumber ==
  /\ Returned("extract_data_insights")
  /\ InputLines = <<"Q3 market share", NoDataLine>>
  /\ result.key_findings = <<>>

GroupNames == {"trends", "comparisons", "outliers"}

PatternsOf(group) ==
  CASE group = "trends" -> trend_patterns
    [] group = "comparisons" -> comparison_patterns
    [] group = "outliers" -> outlier_patterns

\* how many patterns of the group are found in the line
PatternHits(group, line) ==
  Cardinality({k \in 1..Len(PatternsOf(group)) :
                  Search(PatternsOf(group)[k], ToLower(line), NoFlags)})

Occurrences(x, seq) == Cardinality({k \in 1..Len(seq) : seq[k] = x})

\* the input lines that trim to x and are found by some pattern of the group
LinesHit(group, x) ==
  Cardinality({k \in 1..Len(InputLines) :
                  Strip(InputLines[k]) = x /\ PatternHits(group, InputLines[k]) > 0})

\* C22: for each input line and each of the groups trend, comparison and outlier the
\* trimmed line is appended to the group's sequence once if some pattern of the group
\* matches, however many do, and not otherwise; what one group appends does not depend
\* on the other groups or on key_findings
C22_OncePerGroupAndIndependent ==
  Returned("extract_data_insights") =>
     \A group \in GroupNames :
        /\ Len(result[group]) <= Len(InputLines)
        /\ \A k \in 1..Len(InputLines) :
              Occurrences(Strip(InputLines[k]), result[group])
                 = LinesHit(group, Strip(InputLines[k]))

\* a call returned for a line that two outlier patterns match and that is also
\* appended to comparisons and to key_findings
C22_Witness ==
  /\ Returned("extract_data_insights")
  /\ \E k \in 1..Len(InputLines) :
        /\ PatternHits("outliers", InputLines[k]) >= 2
        /\ Occurrences(Strip(InputLines[k]), result.outliers) = 1
        /\ InSeq(Strip(InputLines[k]), result.comparisons)
        /\ InSeq(Strip(InputLines[k]), result.key_findings)
        /\ ~InSeq(Strip(InputLines[k]), result.trends)

SequenceNames == GroupNames \cup {"key_findings"}

TrimmedInput == [k \in 1..Len(InputLines) |-> Strip(InputLines[k])]

\* sub is obtained from seq by leaving elements out: some strictly increasing choice of
\* positions of seq spells sub
IsSubsequence(sub, seq) ==
  \E pos \in [1..Len(sub) -> 1..Len(seq)] :
     /\ \A k \in 1..Len(sub) : seq[pos[k]] = sub[k]
     /\ \A k \in 1..(Len(sub) - 1) : pos[k] < pos[k + 1]

\* the line is appended to the named sequence
Appended(name, line) ==
  IF name = "key_findings" THEN Search(stat_pattern, ToLower(line), NoFlags)
  ELSE PatternHits(name, line) > 0

\* C23: each of the four returned sequences lists its lines in input order (it is a
\* subsequence of the trimmed input lines), a matching line that occurs twice in the
\* input appears twice, and an empty line adds nothing to any sequence
C23_InputOrderNoDeduplication ==
  Returned("extract_data_insights") =>
     \A name \in SequenceNames :
        /\ IsSubsequence(result[name], TrimmedInput)
        /\ Len(result[name]) = Cardinality({k \in 1..Len(InputLines) : Appended(name, InputLines[k])})
        /\ ~InSeq("", result[name])

\* a call returned whose input has the same trend line twice
C23_Witness ==
  /\ Returned("extract_data_insights")
  /\ Len(InputLines) = 2 /\ InputLines[1] = InputLines[2]
  /\ result.trends = <<InputLines[1], InputLines[1]>>

\* a call returned whose input has two different lines of one sequence and an empty line
\* or none: the sequence lists them in input order
C23_WitnessOrder ==
  /\ Returned("extract_data_insights")
  /\ Len(InputLines) = 2 /\ InputLines[1] # InputLines[2]
  /\ result.trends = <<InputLines[1], InputLines[2]>>

\* a call returned whose input has an empty line before a matching line
C23_WitnessEmptyLine ==
  /\ Returned("extract_data_insights")
  /\ Len(InputLines) = 2 /\ InputLines[1] = ""
  /\ result.trends = <<InputLines[2]>>

(***************************************************************************)
(* Further properties of analyze_presentation_intelligence: the record of  *)
(* slide 1 and slide numbers that occur in several markers.                *)
(***************************************************************************)
ParsedSlides == FindAllSlides(args.outline, 0)

\* the parsed markers that carry slide number n, as positions in parse order
MarkersOf(n) == {j \in 1..Len(ParsedSlides) : StrToInt(ParsedSlides[j].slide_num) = n}

\* C29: in the returned mapping the record of slide number 1, when present, has type
\* title and empty insights, whatever its title and the visuals text say
C29_SlideOneRecordIsTitle ==
  Returned("analyze_presentation_intelligence") =>
     (1 \in DOMAIN result => result[1].type = TITLE /\ result[1].insights = EmptyDict)

\* a mapping was returned whose slide 1 has a chart title and a visual block with a chart:
\* classified without the slide number it would be data_visual and have insights
C29_Witness ==
  /\ Returned("analyze_presentation_intelligence")
  /\ 1 \in DOMAIN result
  /\ result[1].title = "Revenue chart" /\ result[1].has_visual
  /\ LET block == VisualContent(1, args.visuals)
     IN /\ identify_slide_type_by_patterns_only(result[1].title, block, 1) = DATA_VISUAL
        /\ extract_data_insights(block) # Insights(<<>>, <<>>, <<>>, <<>>)

LeftTry == pc.generate = "l826"

\* the exceptions that the inputs, a stop or a failing AI call can cause
InputOrCallErrors == {GenerationStoppedError, ValueError, RuntimeError, APIError}

\* C24: a run of handle_generate that was not stopped, whose texts were not empty, whose
\* extractions and AI calls all succeeded, leaves its try block with processing_step "done",
\* download_disabled "no" and results holding the five keys
C24_AsStated ==
  LeftTry /\ frames.raised \notin InputOrCallErrors
    => /\ state.processing_step = "done"
       /\ state.download_disabled = "no"
       /\ DOMAIN state.results = ResultKeys

\* the positions of handle_generate from line 598 up to the third checkpoint, and up to the
\* statement that ends step 3
BeforeStep1 == {"l598", "l599", "l611", "l613", "l614", "l616", "l632"}

BeforeStep2 == BeforeStep1 \cup {"l635", "l652", "l657"}

BeforeStep3 == BeforeStep2 \cup {"l660", "l669", "l676"}

InsideRun == BeforeStep3 \cup {"l679", "l680"}

\* the results a run may hold when it was told to stop at the position stop_at
ResultsAllowedAt(stop_at) ==
  IF stop_at \in BeforeStep1 THEN {}
  ELSE IF stop_at \in BeforeStep2 THEN {"outline"}
  ELSE {"outline", "visuals"}

\* C25: a run in which handle_stop_generate set stop_requested while the run was between
\* line 598 and the end of step 3, and in which nothing else failed, is ended by
\* GenerationStoppedError with processing_step "", downloads disabled and no result of a
\* step after the checkpoint that followed the stop
C25_AsStated ==
  LeftTry /\ history.stop_at \in InsideRun
          /\ frames.raised \notin {ValueError, RuntimeError, APIError}
    => /\ frames.raised = GenerationStoppedError
       /\ state.processing_step = ""
       /\ state.download_disabled = "yes"
       /\ DOMAIN state.results \subseteq ResultsAllowedAt(history.stop_at)

\* C26: with no handler running, a ready deck and no generation in progress mean an enabled
\* generate button; and handle_generate never rejects the inputs of a ready deck
C26_AsStated ==
  /\ pc.generate = "idle" /\ DeckReady(state) /\ ~state.is_generating
       => state.generate_disabled = "no"
  /\ pc.generate = "l589" => ~frames.deck_ready

\* C27: when the finally clause of handle_generate has cleared both flags they are both
\* false, and a run that is stopped is stopped by a request made during that same run
C27_AsStated ==
  /\ pc.generate = "l828" => ~state.is_generating /\ ~state.stop_requested
  /\ pc.generate = "l817" => history.flag_run = history.runs

\* C28: downloads are enabled only if processing_step is "done"
C28_DownloadOnlyWhenDone ==
  state.download_disabled = "no" => state.processing_step = "done"

\* a run was stopped, or failed, after its outline was written: the step is "" and the
\* downloads stay disabled
C28_Witness ==
  /\ LeftTry
  /\ frames.raised \in {GenerationStoppedError, APIError, NameError}
  /\ "outline" \in DOMAIN state.results
  /\ state.processing_step = ""
  /\ state.download_disabled = "yes"

====
